---- MODULE Spec2Model ----
(***************************************************************************)
(* A model of dolab/objconv: the Encoder traversal (encode.go), the        *)
(* StreamEncoder session (encode.go), and the RESP parser with the         *)
(* StreamDecoder session that the tests of package resp exercise.          *)
(*                                                                         *)
(* Go's error values are strings here: NoErr is nil, End is the sentinel   *)
(* objconv.End.  The Emitter is an interface: what it receives is kept as  *)
(* a log of calls, and it may fail on one call chosen by the environment.  *)
(***************************************************************************)
EXTENDS Integers, Sequences, FiniteSets, TLC

VARIABLES
  se,      \* the StreamEncoder: err, max, cnt, opened, closed, oneshot, SortMapKeys
  em,      \* the Emitter behind it: log of calls, number of calls, failing call
  enc,     \* the Encoder: SortMapKeys, key
  op,      \* the last operation called: <<name, argument, ...>>
  ret,     \* what the last operation returned
  nops,    \* number of operations called so far
  pr,      \* the RESP parser: the input bytes and the cursor
  sd,      \* the StreamDecoder: err, typ, cnt, max
  frames,  \* the messages the input bytes were written from
  out,     \* per frame read so far: what the calls returned
  cache,   \* the struct field cache: its entries and the lists built
  th,      \* the threads that look types up in the cache
  pool,    \* the unmarshaler pool: the unmarshalers made and the pooled ones
  um       \* the calls of Unmarshal in progress, one per goroutine

vars == <<se, em, enc, op, ret, nops, pr, sd, frames, out, cache, th, pool, um>>

poolVars == <<pool, um>>

cacheVars == <<cache, th, poolVars>>

encVars == <<se, em, enc>>

respVars == <<pr, sd, frames, out>>

----------------------------------------------------------------------------
(* Errors *)

NoErr == "nil"
End == "End"
Shadow == "Shadow"
ErrIO == "emitter error"
ErrUser == "user error"
ErrClosedPipe == "io.ErrClosedPipe"
ErrTooMany == "too many values"
ErrUnsupported == "unsupported type"

----------------------------------------------------------------------------
(* Bounds *)

MaxOps == 4
MaxFail == 4
MaxCount == 2
MaxLen == 3
MaxEmit == 8

----------------------------------------------------------------------------
(* The Emitter.  A thread state s is the emitter (log, n, failAt) together *)
(* with err, the error returned by the call that produced s.  The log also *)
(* records each invocation of an element callback (op "call"), which is    *)
(* not an Emitter call and is not counted in n.                            *)

Emit(s, name, arg) ==
  LET c == s.n + 1 IN
  [s EXCEPT !.n = c,
            !.log = Append(@, [op |-> name, arg |-> arg]),
            !.err = IF c = s.failAt THEN ErrIO ELSE NoErr]

Called(s, i) == [s EXCEPT !.log = Append(@, [op |-> "call", arg |-> i])]

Return(s, e) == [s EXCEPT !.err = e]

Thread(m) ==
  [log |-> m.log, n |-> m.n, failAt |-> m.failAt, err |-> NoErr, types |-> <<>>]

Emitter(s) == [log |-> s.log, n |-> s.n, failAt |-> s.failAt]

EmitterCalls(log) == SelectSeq(log, LAMBDA x : x.op # "call")

----------------------------------------------------------------------------
(* Values.  A value carries the routine makeEncodeFunc selects for its     *)
(* type in the field k:                                                    *)
(*   nil      an untyped nil, or a nil held in an interface{} slot         *)
(*   int      [v]            string   [v]                                  *)
(*   ptr      [isnil, elem]                                                *)
(*   slice    [elems]                                                      *)
(*   map      [t, pairs]  t = [key, elem] the static key and element       *)
(*            types; pairs = <<key, value>> in this run's iteration order  *)
(*   struct   [fields]  fields = [name, omitempty, val] per descriptor     *)
(*   encoder  a ValueEncoder; body says what its EncodeValue does:         *)
(*            "return" [err], "array" [n, items], "map" [n, items]         *)
(*   func     a type the encoder does not support                          *)
(* An element producer's items are values, or [k |-> "end"] (the producer  *)
(* returns End) or [k |-> "fail"] (it returns an error of its own).  A     *)
(* producer that has run out of items returns End.                         *)

Nil == [k |-> "nil"]
IntV(x) == [k |-> "int", v |-> x]
StrV(x) == [k |-> "string", v |-> x]
Ptr(x) == [k |-> "ptr", isnil |-> FALSE, elem |-> x]
NilPtr == [k |-> "ptr", isnil |-> TRUE, elem |-> Nil]
Slice(xs) == [k |-> "slice", elems |-> xs]
MapOf(kt, et, ps) == [k |-> "map", t |-> [key |-> kt, elem |-> et], pairs |-> ps]
Field(nm, oe, x) == [name |-> nm, omitempty |-> oe, val |-> x]
Struct(fs) == [k |-> "struct", fields |-> fs]
Returning(e) == [k |-> "encoder", body |-> "return", err |-> e]
ArrayProducer(n, items) == [k |-> "encoder", body |-> "array", n |-> n, items |-> items]
MapProducer(n, items) == [k |-> "encoder", body |-> "map", n |-> n, items |-> items]
Func == [k |-> "func"]
EndItem == [k |-> "end"]
FailItem == [k |-> "fail"]

\* The strings of the model, in their natural (byte-wise) order.
StrOrd == <<"", "a", "b", "c">>

StrRank(x) == CHOOSE i \in 1..Len(StrOrd) : StrOrd[i] = x

\* sort.go is not part of the sources: keys are ordered by natural order.
KeyLess(a, b) ==
  IF a.k = "int" /\ b.k = "int" THEN a.v < b.v
  ELSE IF a.k = "string" /\ b.k = "string" THEN StrRank(a.v) < StrRank(b.v)
  ELSE a.k = "int" /\ b.k = "string"

RECURSIVE InsertKey(_, _)
InsertKey(ks, x) ==
  IF ks = <<>> THEN <<x>>
  ELSE IF KeyLess(x, Head(ks)) THEN <<x>> \o ks
  ELSE <<Head(ks)>> \o InsertKey(Tail(ks), x)

RECURSIVE sortValues(_)
sortValues(ks) ==
  IF ks = <<>> THEN <<>> ELSE InsertKey(sortValues(Tail(ks)), Head(ks))

MapKeys(v) == [i \in 1..Len(v.pairs) |-> v.pairs[i][1]]

MapIndex(v, key) ==
  LET i == CHOOSE j \in 1..Len(v.pairs) : v.pairs[j][1] = key IN v.pairs[i][2]

\* reflect.Type.ConvertibleTo against the three map types of the fast paths.
ConvertibleTo(t) ==
  IF t.key = "interface" /\ t.elem = "interface" THEN "mapInterfaceInterface"
  ELSE IF t.key = "string" /\ t.elem = "interface" THEN "mapStringInterface"
  ELSE IF t.key = "string" /\ t.elem = "string" THEN "mapStringString"
  ELSE "none"

\* The zero value of each kind, which "omitempty" tests (struct.go is not
\* part of the sources).
IsZero(v) ==
  CASE v.k = "nil" -> TRUE
    [] v.k = "int" -> v.v = 0
    [] v.k = "string" -> v.v = ""
    [] v.k = "ptr" -> v.isnil
    [] v.k = "slice" -> Len(v.elems) = 0
    [] v.k = "map" -> Len(v.pairs) = 0
    [] OTHER -> FALSE

omit(f) == f.omitempty /\ IsZero(f.val)

----------------------------------------------------------------------------
(* The struct field cache behind structCache.lookup(t).  A struct type is  *)
(* the sequence of its field descriptors [name, omitempty, kind]; a        *)
(* descriptor list is an object of the heap, and the cache maps a type to  *)
(* one.                                                                    *)

\* v.Type() of a struct value.
StructTypeOf(v) ==
  [i \in 1..Len(v.fields) |->
     [name |-> v.fields[i].name, omitempty |-> v.fields[i].omitempty,
      kind |-> v.fields[i].val.k]]

FieldType(nm) == [name |-> nm, omitempty |-> FALSE, kind |-> "int"]

TypeT1 == <<FieldType("a"), FieldType("b")>>

TypeT2 == <<FieldType("c")>>

\* The wire names of the fields of a type, in declaration order.
FieldsOf(t) == [i \in 1..Len(t) |-> t[i].name]

\* The list the cache holds for t, 0 when it holds none.
Entry(c, t) ==
  IF \E e \in c.store : e[1] = t
  THEN (CHOOSE e \in c.store : e[1] = t)[2]
  ELSE 0

\* On a miss the new list is published in the cache before it is built.
lookupMissPublishes(c, t) ==
  [store |-> {e \in c.store : e[1] # t} \cup {<<t, Len(c.heap) + 1>>},
   heap |-> Append(c.heap, <<>>)]

\* On a miss a new list is allocated, known to the building thread only.
lookupMiss(c, t) == [c EXCEPT !.heap = Append(@, <<>>)]

\* The next field descriptor is appended to the list being built.
buildField(c, id, t) ==
  [c EXCEPT !.heap[id] = Append(@, FieldsOf(t)[Len(@) + 1])]

\* The finished list becomes the cache's entry for t.
storeEntry(c, t, id) ==
  [c EXCEPT !.store = {e \in @ : e[1] # t} \cup {<<t, id>>}]

\* structCache.lookup(t) run to its end by one goroutine: the entry of t,
\* built and stored on a miss.
lookup(c, t) ==
  IF Entry(c, t) # 0 THEN c
  ELSE LET id == Len(c.heap) + 1 IN
       storeEntry([lookupMiss(c, t) EXCEPT !.heap[id] = FieldsOf(t)], t, id)

\* The lookups of the types ts, in order.
RECURSIVE lookupAll(_, _)
lookupAll(c, ts) ==
  IF ts = <<>> THEN c ELSE lookupAll(lookup(c, Head(ts)), Tail(ts))

----------------------------------------------------------------------------
(* The Encoder.  An Encoder value e is [SortMapKeys, key]; its Emitter is  *)
(* the thread state.  Encoder methods have value receivers, so a change of *)
(* e.key inside a method is seen by that call only.                        *)

\* "if err != nil { return }": Rest runs on the state a call left only when
\* that call returned nil.
Then(s, Rest(_)) == IF s.err # NoErr THEN s ELSE Rest(s)

NewEncoder(sort) == [SortMapKeys |-> sort, key |-> FALSE]

encodeMapValueMaybe(e, s) ==
  IF e.key THEN Emit(s, "EmitMapValue", 0) ELSE Return(s, NoErr)

RECURSIVE Encode(_, _, _)
RECURSIVE encode(_, _, _)
RECURSIVE EncodeArray(_, _, _, _)
RECURSIVE EncodeArrayLoop(_, _, _, _, _)
RECURSIVE EncodeMap(_, _, _, _)
RECURSIVE EncodeMapLoop(_, _, _, _, _)
RECURSIVE encodeMapRange(_, _, _, _)
RECURSIVE encodeStructLoop(_, _, _, _, _)

\* Encoder.Encode
Encode(e, v, s) ==
  Then(encodeMapValueMaybe(e, s), LAMBDA s1 :
    IF v.k = "nil" THEN Emit(s1, "EmitNil", 0)
    ELSE encode([e EXCEPT !.key = FALSE], v, s1))

\* The i-th item of a caller's producer; one that has run out returns End.
ItemAt(items, i) == IF i + 1 <= Len(items) THEN items[i + 1] ELSE [k |-> "end"]

\* The call f(e) of EncodeArray's element callback, for the i-th element.
\*   elems: the closure of encodeArrayWith, err = f(e, v.Index(i))
\*   prod:  a caller's producer
CallElem(f, i, e, s) ==
  IF f.kind = "elems" THEN encode(e, f.elems[i + 1], Called(s, i))
  ELSE CASE ItemAt(f.items, i).k = "end" -> Return(Called(s, i), End)
         [] ItemAt(f.items, i).k = "fail" -> Return(Called(s, i), ErrUser)
         [] OTHER -> Encode(e, ItemAt(f.items, i), Called(s, i))

\* Line 494 reads "if e.Emitter.EmitArrayNext(); err != nil": the call's
\* result is dropped and err still holds the nil of the previous element.
EmitArrayNextStep(s) == Return(Emit(s, "EmitArrayNext", 0), s.err)

\* AfterElem without the "case End" of the switch.
AfterElemEndIsError(e, n, f, i, s) ==
  IF s.err = NoErr THEN EncodeArrayLoop(e, n, f, i + 1, s) ELSE s

\* The switch on the error f returned, lines 498-504.
AfterElem(e, n, f, i, s) ==
  CASE s.err = NoErr -> EncodeArrayLoop(e, n, f, i + 1, s)
    [] s.err = End -> Emit(s, "EmitArrayEnd", 0)
    [] OTHER -> s

EncodeArrayLoop(e, n, f, i, s) ==
  IF ~(n < 0 \/ i < n) THEN Emit(s, "EmitArrayEnd", 0)
  ELSE Then(IF i # 0 THEN EmitArrayNextStep(s) ELSE s, LAMBDA s1 :
         AfterElem(e, n, f, i, CallElem(f, i, e, s1)))

EncodeArray(e, n, f, s) ==
  Then(encodeMapValueMaybe(e, s), LAMBDA s1 :
    Then(Emit(s1, "EmitArrayBegin", n), LAMBDA s2 :
      EncodeArrayLoop([e EXCEPT !.key = FALSE], n, f, 0, s2)))

encodeArrayWith(e, v, s) ==
  EncodeArray(e, Len(v.elems), [kind |-> "elems", elems |-> v.elems], s)

\* The call f(ke, ve) of EncodeMap's pair callback, for the i-th pair.
\*   reflect: the closure of encodeMapWith, which uses the encoder f.e it
\*            closed over: kf(e, k[i]), EmitMapValue, vf(e, v.MapIndex(k[i]))
\*   pairs:   a caller's producer, encoding the key with ke, the value with ve
CallPair(f, i, ke, ve, s) ==
  IF f.kind = "reflect"
  THEN Then(encode(f.e, f.keys[i + 1], Called(s, i)), LAMBDA s1 :
         Then(Emit(s1, "EmitMapValue", 0), LAMBDA s2 :
           encode(f.e, MapIndex(f.v, f.keys[i + 1]), s2)))
  ELSE CASE ItemAt(f.items, i).k = "end" -> Return(Called(s, i), End)
         [] ItemAt(f.items, i).k = "fail" -> Return(Called(s, i), ErrUser)
         [] OTHER -> Then(Encode(ke, ItemAt(f.items, i).key, Called(s, i)), LAMBDA s1 :
                       Encode(ve, ItemAt(f.items, i).val, s1))

\* The switch on the error f returned, lines 548-554.
AfterPair(e, n, f, i, s) ==
  CASE s.err = NoErr -> EncodeMapLoop(e, n, f, i + 1, s)
    [] s.err = End -> Emit(s, "EmitMapEnd", 0)
    [] OTHER -> s

EncodeMapLoop(e, n, f, i, s) ==
  IF ~(n < 0 \/ i < n) THEN Emit(s, "EmitMapEnd", 0)
  ELSE Then(IF i # 0 THEN Emit(s, "EmitMapNext", 0) ELSE s, LAMBDA s1 :
         AfterPair(e, n, f, i,
                   CallPair(f, i,
                            [SortMapKeys |-> e.SortMapKeys, key |-> FALSE],
                            [SortMapKeys |-> e.SortMapKeys, key |-> TRUE], s1)))

EncodeMap(e, n, f, s) ==
  Then(encodeMapValueMaybe(e, s), LAMBDA s1 :
    Then(Emit(s1, "EmitMapBegin", n), LAMBDA s2 :
      EncodeMapLoop([e EXCEPT !.key = FALSE], n, f, 0, s2)))

\* The loop "for k, v := range m" shared by encodeMapInterfaceInterface,
\* encodeMapStringInterface and encodeMapStringString, from pair i on: the
\* three differ in how the key and the value are emitted.
encodeMapRange(e, v, i, s) ==
  IF i > Len(v.pairs) THEN Emit(s, "EmitMapEnd", 0)
  ELSE
    Then(IF i # 1 THEN Emit(s, "EmitMapNext", 0) ELSE s, LAMBDA s1 :
      Then(IF ConvertibleTo(v.t) = "mapInterfaceInterface"
           THEN Encode(e, v.pairs[i][1], s1)
           ELSE Emit(s1, "EmitString", v.pairs[i][1].v), LAMBDA s2 :
        Then(Emit(s2, "EmitMapValue", 0), LAMBDA s3 :
          Then(IF ConvertibleTo(v.t) = "mapStringString"
               THEN Emit(s3, "EmitString", v.pairs[i][2].v)
               ELSE Encode(e, v.pairs[i][2], s3), LAMBDA s4 :
            encodeMapRange(e, v, i + 1, s4)))))

encodeMapFast(e, v, s) ==
  Then(Emit(s, "EmitMapBegin", Len(v.pairs)), LAMBDA s1 :
    encodeMapRange(e, v, 1, s1))

\* The keys encodeMapWith iterates over, lines 262-272.
KeysToEncode(e, v) ==
  IF Len(v.pairs) # 0
  THEN (IF e.SortMapKeys THEN sortValues(MapKeys(v)) ELSE MapKeys(v))
  ELSE <<>>

\* encodeMapWith taking a fast path whatever SortMapKeys says.
encodeMapWithAlwaysFast(e, v, s) ==
  IF ConvertibleTo(v.t) # "none" THEN encodeMapFast(e, v, s)
  ELSE EncodeMap(e, Len(v.pairs),
                 [kind |-> "reflect", e |-> e, v |-> v, keys |-> KeysToEncode(e, v)], s)

encodeMapWith(e, v, s) ==
  IF ~e.SortMapKeys /\ ConvertibleTo(v.t) # "none" THEN encodeMapFast(e, v, s)
  ELSE EncodeMap(e, Len(v.pairs),
                 [kind |-> "reflect", e |-> e, v |-> v, keys |-> KeysToEncode(e, v)], s)

\* CountFields counting the omitted fields too.
CountAllFields(fs) == Len(fs)

\* The first loop of encodeStructWith: the number of fields not omitted.
RECURSIVE CountFields(_)
CountFields(fs) ==
  IF fs = <<>> THEN 0
  ELSE (IF ~omit(Head(fs)) THEN 1 ELSE 0) + CountFields(Tail(fs))

\* The second loop of encodeStructWith without its test of f.omit.
RECURSIVE encodeStructLoopNoOmit(_, _, _, _, _)
encodeStructLoopNoOmit(e, fs, i, n, s) ==
  IF i > Len(fs) THEN Emit(s, "EmitMapEnd", 0)
  ELSE
    Then(IF n # 0 THEN Emit(s, "EmitMapNext", 0) ELSE s, LAMBDA s1 :
      Then(Emit(s1, "EmitString", fs[i].name), LAMBDA s2 :
        Then(Emit(s2, "EmitMapValue", 0), LAMBDA s3 :
          Then(encode(e, fs[i].val, s3), LAMBDA s4 :
            encodeStructLoopNoOmit(e, fs, i + 1, n + 1, s4)))))

\* The second loop of encodeStructWith, from field i on, n pairs emitted.
encodeStructLoop(e, fs, i, n, s) ==
  IF i > Len(fs) THEN Emit(s, "EmitMapEnd", 0)
  ELSE IF omit(fs[i]) THEN encodeStructLoop(e, fs, i + 1, n, s)
  ELSE
    Then(IF n # 0 THEN Emit(s, "EmitMapNext", 0) ELSE s, LAMBDA s1 :
      Then(Emit(s1, "EmitString", fs[i].name), LAMBDA s2 :
        Then(Emit(s2, "EmitMapValue", 0), LAMBDA s3 :
          Then(encode(e, fs[i].val, s3), LAMBDA s4 :
            encodeStructLoop(e, fs, i + 1, n + 1, s4)))))

encodeStructWith(e, v, s) ==
  Then(Emit(s, "EmitMapBegin", CountFields(v.fields)), LAMBDA s1 :
    encodeStructLoop(e, v.fields, 1, 0, s1))

\* encodeStruct: e.encodeStructWith(v, structCache.lookup(v.Type())); the
\* thread records the types it looked up.
encodeStruct(e, v, s) ==
  encodeStructWith(e, v, [s EXCEPT !.types = Append(@, StructTypeOf(v))])

\* encodePointerWith with a nil pointer that emits nothing.
encodePointerWithSilentNil(e, v, s) ==
  IF v.isnil THEN Return(s, NoErr) ELSE encode(e, v.elem, s)

encodePointerWith(e, v, s) ==
  IF v.isnil THEN Emit(s, "EmitNil", 0) ELSE encode(e, v.elem, s)

\* encodeInterface: a nil interface{} is emitted as Nil; one that holds a
\* value is represented by that value, which encode dispatches on.
encodeInterface(e, v, s) == Emit(s, "EmitNil", 0)

\* ValueEncoder.EncodeValue(e), the caller's own code.
EncodeValue(v, e, s) ==
  CASE v.body = "return" -> Return(s, v.err)
    [] v.body = "array" -> EncodeArray(e, v.n, [kind |-> "prod", items |-> v.items], s)
    [] v.body = "map" -> EncodeMap(e, v.n, [kind |-> "pairs", items |-> v.items], s)

encodeEncoder(e, v, s) == EncodeValue(v, e, s)

encodeUnsupported(e, v, s) == Return(s, ErrUnsupported)

\* Encoder.encode: encodeFuncOf(v.Type())(e, v)
encode(e, v, s) ==
  CASE v.k = "nil" -> encodeInterface(e, v, s)
    [] v.k = "int" -> Emit(s, "EmitInt", v.v)
    [] v.k = "string" -> Emit(s, "EmitString", v.v)
    [] v.k = "ptr" -> encodePointerWith(e, v, s)
    [] v.k = "slice" -> encodeArrayWith(e, v, s)
    [] v.k = "map" -> encodeMapWith(e, v, s)
    [] v.k = "struct" -> encodeStruct(e, v, s)
    [] v.k = "encoder" -> encodeEncoder(e, v, s)
    [] OTHER -> encodeUnsupported(e, v, s)

----------------------------------------------------------------------------
(* The StreamEncoder.  A session state st is [se, em, ret]: the fields of  *)
(* the StreamEncoder, its Emitter, and the error the call returns.         *)

NewStreamEncoder(oneshot, sort) ==
  [err |-> NoErr, max |-> 0, cnt |-> 0, opened |-> FALSE, closed |-> FALSE,
   oneshot |-> oneshot, SortMapKeys |-> sort]

\* "return e.err"
ReturnErr(st) == [st EXCEPT !.ret = st.se.err]

\* Rest runs on the session a call left only when that call returned nil.
ThenSession(st, Rest(_)) == IF st.ret # NoErr THEN st ELSE Rest(st)

\* e.err = <the result of running the Emitter from thread state s>
StoreErr(st, s) == [st EXCEPT !.se.err = s.err, !.em = Emitter(s)]

\* One Emitter call made by the session, one-shot or not.
StreamEmitAlways(st, name, arg) == StoreErr(st, Emit(Thread(st.em), name, arg))

\* One Emitter call made by the session, unless it is one-shot.
StreamEmit(st, name, arg) ==
  IF ~st.se.oneshot THEN StoreErr(st, Emit(Thread(st.em), name, arg)) ELSE st

\* StreamEncoder.Open without its test of e.err.
StreamOpenForgetsErr(st, n) ==
  IF st.se.closed THEN [st EXCEPT !.ret = ErrClosedPipe]
  ELSE IF ~st.se.opened
       THEN ReturnErr(StreamEmit([st EXCEPT !.se.max = n, !.se.opened = TRUE],
                                 "EmitArrayBegin", n))
       ELSE ReturnErr(st)

\* StreamEncoder.Open without its test of e.opened.
StreamOpenReopens(st, n) ==
  IF st.se.err # NoErr THEN [st EXCEPT !.ret = st.se.err]
  ELSE IF st.se.closed THEN [st EXCEPT !.ret = ErrClosedPipe]
  ELSE ReturnErr(StreamEmit([st EXCEPT !.se.max = n, !.se.opened = TRUE],
                            "EmitArrayBegin", n))

\* StreamEncoder.Open without its test of e.closed.
StreamOpenIgnoresClosed(st, n) ==
  IF st.se.err # NoErr THEN [st EXCEPT !.ret = st.se.err]
  ELSE IF ~st.se.opened
       THEN ReturnErr(StreamEmit([st EXCEPT !.se.max = n, !.se.opened = TRUE],
                                 "EmitArrayBegin", n))
       ELSE ReturnErr(st)

\* StreamEncoder.Open
StreamOpen(st, n) ==
  IF st.se.err # NoErr THEN [st EXCEPT !.ret = st.se.err]
  ELSE IF st.se.closed THEN [st EXCEPT !.ret = ErrClosedPipe]
  ELSE IF ~st.se.opened
       THEN ReturnErr(StreamEmit([st EXCEPT !.se.max = n, !.se.opened = TRUE],
                                 "EmitArrayBegin", n))
       ELSE ReturnErr(st)

\* StreamEncoder.Close
StreamClose(st) ==
  ThenSession(StreamOpen(st, -1), LAMBDA o :
    IF ~o.se.closed
    THEN ReturnErr(StreamEmit([o EXCEPT !.se.closed = TRUE], "EmitArrayEnd", 0))
    ELSE ReturnErr(o))

\* A session that never closes itself.
AutoCloseNever(st) == st

\* Lines 645-652: the value is encoded, the count advances, and a session
\* that reached its declared count closes itself.
AutoClose(st) ==
  IF st.se.max >= 0 /\ st.se.cnt >= st.se.max THEN StreamClose(st) ELSE st

EncodeElement(st, v) ==
  IF st.se.err = NoErr
  THEN AutoClose([StoreErr(st, Encode(NewEncoder(st.se.SortMapKeys), v, Thread(st.em)))
                    EXCEPT !.se.cnt = @ + 1])
  ELSE st

\* StreamEncoder.Encode with the capacity error stored in e.err.
StreamEncodeStoresCapacityError(st, v) ==
  ThenSession(StreamOpen(st, -1), LAMBDA o :
    IF o.se.max >= 0 /\ o.se.cnt >= o.se.max
    THEN [o EXCEPT !.ret = ErrTooMany, !.se.err = ErrTooMany]
    ELSE ReturnErr(EncodeElement(IF o.se.cnt # 0
                                 THEN StreamEmit(o, "EmitArrayNext", 0) ELSE o, v)))

\* StreamEncoder.Encode
StreamEncode(st, v) ==
  ThenSession(StreamOpen(st, -1), LAMBDA o :
    IF o.se.max >= 0 /\ o.se.cnt >= o.se.max THEN [o EXCEPT !.ret = ErrTooMany]
    ELSE ReturnErr(EncodeElement(IF o.se.cnt # 0
                                 THEN StreamEmit(o, "EmitArrayNext", 0) ELSE o, v)))

----------------------------------------------------------------------------
(* Specification Spec: one StreamEncoder driven by any sequence of Open,   *)
(* Encode and Close calls.                                                 *)

StreamValues ==
  { IntV(1), Slice(<<IntV(1), IntV(2)>>), Returning(End) }

Session == [se |-> se, em |-> em, ret |-> ret]

\* No unmarshaler is pooled and Unmarshal is not called.
NoPool ==
  /\ pool = [bufs |-> <<>>, free |-> {}]
  /\ um = <<>>

\* No type is looked up in this specification.
NoCache ==
  /\ cache = [store |-> {}, heap |-> <<>>]
  /\ th = <<>>
  /\ NoPool

\* No RESP input is read in this specification.
NoResp ==
  /\ NoCache
  /\ pr = [in |-> <<>>, pos |-> 1]
  /\ sd = [err |-> NoErr, typ |-> "Unknown", cnt |-> 0, max |-> 0]
  /\ frames = <<>>
  /\ out = <<>>

Init ==
  /\ \E o \in BOOLEAN, b \in BOOLEAN : se = NewStreamEncoder(o, b)
  /\ \E k \in 0..MaxFail : em = [log |-> <<>>, n |-> 0, failAt |-> k]
  /\ enc = NewEncoder(se.SortMapKeys)
  /\ op = <<"new">>
  /\ ret = NoErr
  /\ nops = 0
  /\ NoResp

Apply(st, o) ==
  /\ nops < MaxOps
  /\ se' = st.se
  /\ em' = st.em
  /\ ret' = st.ret
  /\ op' = o
  /\ nops' = nops + 1
  /\ UNCHANGED <<enc, respVars, cacheVars>>

Open ==
  \E n \in -1..MaxCount : Apply(StreamOpen(Session, n), <<"Open", n>>)

Close == Apply(StreamClose(Session), <<"Close">>)

StreamEncodeValue ==
  \E v \in StreamValues : Apply(StreamEncode(Session, v), <<"Encode", v>>)

Next == Open \/ Close \/ StreamEncodeValue

Spec == Init /\ [][Next]_vars

----------------------------------------------------------------------------
(* Claims about the StreamEncoder, checked under Spec. *)

\* C1: on a StreamEncoder that is already closed and whose emitter has not
\* failed, a further Close() returns no error, makes no Emitter call and
\* leaves the session state unchanged.
C1_CloseIsIdempotent ==
  [][ (op'[1] = "Close" /\ ~se.oneshot /\ se.closed /\ se.err = NoErr)
        => (ret' = NoErr /\ em' = em /\ se' = se) ]_vars

\* C2: after Open(n) with n >= 0 and n successful Encode calls, the next
\* Encode call returns the capacity error ("too many values") and emits
\* nothing.
C2_CapacityErrorAfterDeclaredCount ==
  [][ ( /\ op'[1] = "Encode"
        /\ ~se.oneshot /\ se.opened /\ se.max >= 0 /\ se.cnt = se.max
        /\ ret = NoErr
        /\ \/ op[1] = "Encode"
           \/ op[1] = "Open" /\ se.max = 0 )
        => (ret' = ErrTooMany /\ em' = em) ]_vars

\* C4: the sentinel End is never returned by Encode to its caller and is
\* never stored as the stream encoder's sticky error.
C4_EndNeverLeaks ==
  ~se.oneshot => (ret # End /\ se.err # End)

----------------------------------------------------------------------------
(* Specification SpecEnc: one call of Encoder.Encode, Encoder.EncodeArray, *)
(* Encoder.EncodeMap, or of a new StreamEncoder's Encode, on an input      *)
(* drawn from the sets below, against an Emitter that fails on its         *)
(* failAt-th call (0: never).                                              *)

SeqsUpTo(S, n) == UNION { [1..k -> S] : k \in 0..n }

Perms(S) ==
  { p \in [1..Cardinality(S) -> S] :
      \A i, j \in 1..Cardinality(S) : p[i] = p[j] => i = j }

Pair(key, val) == [k |-> "pair", key |-> key, val |-> val]

FieldNames == <<"a", "b", "c", "d", "e">>

MapTypes ==
  { [key |-> "interface", elem |-> "interface"],
    [key |-> "string", elem |-> "interface"],
    [key |-> "string", elem |-> "string"],
    [key |-> "int", elem |-> "int"] }

KeysOf(t) ==
  IF t.key = "string" THEN {StrV("a"), StrV("b"), StrV("c")}
  ELSE {IntV(1), IntV(2), IntV(3)}

ElemOf(t, key) ==
  IF t.elem = "string" THEN StrV("a")
  ELSE IF t.elem = "int" THEN IntV(1)
  ELSE IF key \in {StrV("a"), IntV(1)} THEN Nil ELSE IntV(0)

\* Every map of type t over a subset of its keys, in every iteration order.
MapsOfType(t) ==
  { MapOf(t.key, t.elem, [i \in 1..Len(p) |-> <<p[i], ElemOf(t, p[i])>>]) :
      p \in UNION { Perms(ks) : ks \in SUBSET KeysOf(t) } }

FlatMaps == UNION { MapsOfType(t) : t \in MapTypes }

TwoKeyMaps == { m \in FlatMaps : Len(m.pairs) = 2 }

\* A map reached through an array element, a pointer, a record field, a map
\* value (of a fast-path type and of another type), and a map callback.
NestedMaps ==
  UNION { { Slice(<<m>>),
            Ptr(m),
            Struct(<<Field("a", FALSE, m)>>),
            MapOf("string", "interface", <<<<StrV("a"), m>>>>),
            MapOf("int", "map", <<<<IntV(2), m>>, <<IntV(1), m>>>>),
            MapProducer(1, <<Pair(StrV("a"), m)>>) } : m \in TwoKeyMaps }

Slices ==
  { Slice(xs) : xs \in SeqsUpTo({IntV(1), Nil, Returning(End)}, MaxLen) }

Structs ==
  { Struct([i \in 1..Len(f) |-> Field(FieldNames[i], f[i][1], f[i][2])]) :
      f \in SeqsUpTo(BOOLEAN \X {IntV(0), IntV(1)}, MaxLen) }

DeepStructs ==
  { Struct(<<Field("a", TRUE, NilPtr), Field("b", TRUE, StrV("")),
             Field("c", TRUE, Slice(<<>>)), Field("d", FALSE, NilPtr)>>),
    Struct(<<Field("a", TRUE, Struct(<<Field("a", TRUE, IntV(0)),
                                       Field("b", FALSE, IntV(0))>>)),
             Field("b", FALSE, Slice(<<Struct(<<>>), Struct(<<>>)>>)),
             Field("c", TRUE, StrV("a"))>>),
    Struct(<<Field("a", FALSE, Returning(ErrUser)), Field("b", FALSE, IntV(1))>>) }

OtherValues ==
  { Nil, NilPtr, Ptr(IntV(1)), StrV("a"), Func,
    Returning(End), Returning(ErrUser), Returning(NoErr),
    ArrayProducer(-1, <<IntV(1), Slice(<<IntV(1), IntV(1)>>), IntV(0)>>),
    MapProducer(-1, <<Pair(StrV("a"), IntV(1)), Pair(StrV("b"), Slice(<<IntV(1)>>))>>) }

\* Pointers, nil slots and containers nested in one another.
ComposedValues ==
  { Ptr(NilPtr), Ptr(Ptr(Slice(<<Nil, NilPtr>>))),
    Slice(<<NilPtr, Slice(<<Nil, Ptr(IntV(1))>>), Slice(<<>>)>>),
    MapOf("string", "interface", <<<<StrV("a"), Nil>>, <<StrV("b"), Slice(<<Nil>>)>>>>),
    MapOf("int", "ptr", <<<<IntV(2), NilPtr>>, <<IntV(1), Ptr(Struct(<<Field("a", FALSE, Nil)>>))>>>>),
    Struct(<<Field("a", FALSE, MapOf("string", "interface", <<<<StrV("a"), Slice(<<Nil, Nil>>)>>>>)),
             Field("b", TRUE, Nil), Field("c", FALSE, Ptr(Slice(<<NilPtr>>)))>>) }

EncValues ==
  FlatMaps \cup NestedMaps \cup Slices \cup Structs \cup DeepStructs \cup OtherValues
    \cup ComposedValues

ElemItems == SeqsUpTo({IntV(1), EndItem, FailItem}, MaxLen)

PairItems == SeqsUpTo({Pair(StrV("a"), IntV(1)), EndItem, FailItem}, MaxLen)

\* The exported methods that encode one scalar, each with an argument.
ScalarCalls ==
  { <<"EncodeBool", 1>>, <<"EncodeInt", 0>>, <<"EncodeInt", 1>>, <<"EncodeUint", 1>>,
    <<"EncodeFloat", 1>>, <<"EncodeString", "a">>, <<"EncodeBytes", "a">>,
    <<"EncodeTime", 0>>, <<"EncodeDuration", 1>>, <<"EncodeError", "a">> }

\* EncodeBool calls EmitBool, EncodeInt calls EmitInt, and so on.
EmitterMethod(method) ==
  CASE method = "EncodeBool" -> "EmitBool"
    [] method = "EncodeInt" -> "EmitInt"
    [] method = "EncodeUint" -> "EmitUint"
    [] method = "EncodeFloat" -> "EmitFloat"
    [] method = "EncodeString" -> "EmitString"
    [] method = "EncodeBytes" -> "EmitBytes"
    [] method = "EncodeTime" -> "EmitTime"
    [] method = "EncodeDuration" -> "EmitDuration"
    [] method = "EncodeError" -> "EmitError"

InitEnc ==
  /\ \E b \in BOOLEAN : enc = NewEncoder(b)
  /\ se = NewStreamEncoder(FALSE, enc.SortMapKeys)
  /\ \E k \in 0..MaxEmit : em = [log |-> <<>>, n |-> 0, failAt |-> k]
  /\ op = <<"new">>
  /\ ret = NoErr
  /\ nops = 0
  /\ NoResp

Done(s, o) ==
  /\ nops = 0
  /\ em' = Emitter(s)
  /\ ret' = s.err
  /\ op' = o
  /\ nops' = 1
  /\ cache' = lookupAll(cache, s.types)
  /\ UNCHANGED <<se, enc, respVars, th, poolVars>>

CallEncode ==
  \E v \in EncValues : Done(Encode(enc, v, Thread(em)), <<"Encode", v>>)

\* EncodeBool, EncodeInt, EncodeUint, EncodeFloat, EncodeString,
\* EncodeBytes, EncodeTime, EncodeDuration and EncodeError: the map-value
\* separator if one is due, then the Emitter call of the method's name.
EncodeScalar(e, method, v, s) ==
  Then(encodeMapValueMaybe(e, s), LAMBDA s1 : Emit(s1, EmitterMethod(method), v))

CallEncodeScalar ==
  \E c \in ScalarCalls :
    Done(EncodeScalar(enc, c[1], c[2], Thread(em)), c)

CallEncodeArray ==
  \E n \in -1..MaxLen, items \in ElemItems :
    Done(EncodeArray(enc, n, [kind |-> "prod", items |-> items], Thread(em)),
         <<"EncodeArray", n, items>>)

CallEncodeMap ==
  \E n \in -1..MaxLen, items \in PairItems :
    Done(EncodeMap(enc, n, [kind |-> "pairs", items |-> items], Thread(em)),
         <<"EncodeMap", n, items>>)

CallStreamEncode ==
  \E v \in TwoKeyMaps :
    LET st == StreamEncode(Session, v) IN
    /\ nops = 0
    /\ se' = st.se
    /\ em' = st.em
    /\ ret' = st.ret
    /\ op' = <<"StreamEncode", v>>
    /\ nops' = 1
    /\ UNCHANGED <<enc, respVars, cacheVars>>

NextEnc ==
  CallEncode \/ CallEncodeScalar \/ CallEncodeArray \/ CallEncodeMap \/ CallStreamEncode

SpecEnc == InitEnc /\ [][NextEnc]_vars

----------------------------------------------------------------------------
(* Claims about the Encoder, checked under SpecEnc. *)

Tokens == EmitterCalls(em.log)

NumCalls == Len(SelectSeq(em.log, LAMBDA x : x.op = "call"))

NumOf(log, name) == Len(SelectSeq(log, LAMBDA x : x.op = name))

IsBegin(x) == x.op \in {"EmitArrayBegin", "EmitMapBegin"}

IsEnd(x) == x.op \in {"EmitArrayEnd", "EmitMapEnd"}

\* The number of containers open before the i-th token.
DepthAt(log, i) ==
  Cardinality({ j \in 1..(i - 1) : IsBegin(log[j]) })
    - Cardinality({ j \in 1..(i - 1) : IsEnd(log[j]) })

\* The token that ends the container the i-th token begins.
MatchingEnd(log, i) ==
  CHOOSE j \in (i + 1)..Len(log) :
    /\ IsEnd(log[j]) /\ DepthAt(log, j) = DepthAt(log, i) + 1
    /\ \A h \in (i + 1)..(j - 1) : ~(IsEnd(log[h]) /\ DepthAt(log, h) = DepthAt(log, i) + 1)

\* The number of tokens named name directly inside the container at i.
InsideCount(log, i, name) ==
  Cardinality({ h \in (i + 1)..(MatchingEnd(log, i) - 1) :
                  log[h].op = name /\ DepthAt(log, h) = DepthAt(log, i) + 1 })

\* C3: once an Emitter call has returned an error during an encoding, no
\* further Emitter call and no further element callback is made, and the
\* encoding returns that error.
C3_EmitterFailureAborts ==
  (op[1] \in {"Encode", "EncodeArray", "EncodeMap"} /\ em.failAt # 0 /\ em.n >= em.failAt)
    => /\ em.n = em.failAt
       /\ em.log[Len(em.log)].op # "call"
       /\ ret = ErrIO

\* What the i-th call of a producer returns.
ProducerResult(items, i) ==
  IF i > Len(items) \/ items[i].k = "end" THEN End
  ELSE IF items[i].k = "fail" THEN ErrUser ELSE NoErr

\* The first call of a producer that does not return nil.
FirstStop(items) ==
  CHOOSE i \in 1..(Len(items) + 1) :
    /\ ProducerResult(items, i) # NoErr
    /\ \A j \in 1..(i - 1) : ProducerResult(items, j) = NoErr

\* C9: in EncodeArray(n, f) with an Emitter that does not fail, for n < 0
\* and n >= 0, once f returns End it is not called again, array-end is
\* emitted and EncodeArray returns nil; any other error of f is returned as
\* is, f is not called again, and array-end is not emitted.
C9_ArrayEarlyTermination ==
  (op[1] = "EncodeArray" /\ em.failAt = 0 /\ (op[2] < 0 \/ FirstStop(op[3]) <= op[2]))
    => /\ NumCalls = FirstStop(op[3])
       /\ IF ProducerResult(op[3], FirstStop(op[3])) = End
          THEN /\ ret = NoErr
               /\ NumOf(Tokens, "EmitArrayEnd") = 1
               /\ Tokens[Len(Tokens)].op = "EmitArrayEnd"
          ELSE /\ ret = ErrUser
               /\ NumOf(Tokens, "EmitArrayEnd") = 0

C9_Witness ==
  /\ op = <<"EncodeArray", 3, <<IntV(1), EndItem, IntV(1)>>>>
  /\ em.failAt = 0
  /\ ret = NoErr
  /\ NumCalls = 2

\* C10: when a record is encoded without error, the count passed to each
\* map-begin equals the number of key/value pairs emitted up to its map-end,
\* and n - 1 map-next calls are emitted for n >= 1 pairs, none for n = 0.
C10_RecordCountAccurate ==
  (op[1] = "Encode" /\ op[2] \in Structs \cup DeepStructs /\ ret = NoErr)
    => \A i \in 1..Len(Tokens) :
         Tokens[i].op = "EmitMapBegin"
           => /\ Tokens[i].arg = InsideCount(Tokens, i, "EmitMapValue")
              /\ InsideCount(Tokens, i, "EmitMapNext") =
                   (IF Tokens[i].arg >= 1 THEN Tokens[i].arg - 1 ELSE 0)

C10_Witness ==
  /\ op = <<"Encode", Struct(<<Field("a", TRUE, IntV(0)), Field("b", TRUE, IntV(1)),
                               Field("c", FALSE, IntV(0))>>)>>
  /\ ret = NoErr
  /\ Tokens[1] = [op |-> "EmitMapBegin", arg |-> 2]
  /\ NumOf(Tokens, "EmitMapNext") = 1

\* The pairs ps in ascending order of their keys.
SortedPairs(ps) ==
  LET p == CHOOSE q \in Perms(1..Len(ps)) :
             \A i, j \in 1..Len(ps) : i < j => KeyLess(ps[q[i]][1], ps[q[j]][1])
  IN [i \in 1..Len(ps) |-> ps[p[i]]]

\* The value v with the pairs of every map in it listed in ascending order
\* of their keys: two values with the same contents have the same Canon.
RECURSIVE Canon(_)
Canon(v) ==
  CASE v.k = "map" ->
         [v EXCEPT !.pairs = SortedPairs([i \in 1..Len(v.pairs) |->
                                           <<v.pairs[i][1], Canon(v.pairs[i][2])>>])]
    [] v.k = "slice" -> [v EXCEPT !.elems = [i \in 1..Len(v.elems) |-> Canon(v.elems[i])]]
    [] v.k = "ptr" -> [v EXCEPT !.elem = Canon(v.elem)]
    [] v.k = "struct" ->
         [v EXCEPT !.fields = [i \in 1..Len(v.fields) |->
                                 [v.fields[i] EXCEPT !.val = Canon(v.fields[i].val)]]]
    [] v.k = "pair" -> [v EXCEPT !.val = Canon(v.val)]
    [] v.k = "encoder" /\ v.body \in {"array", "map"} ->
         [v EXCEPT !.items = [i \in 1..Len(v.items) |-> Canon(v.items[i])]]
    [] OTHER -> v

\* The Emitter calls of encoding v with sorted keys on a new Emitter that
\* fails on call k.
SortedLog(v, k) ==
  EmitterCalls(Encode(NewEncoder(TRUE), v, Thread([log |-> <<>>, n |-> 0, failAt |-> k])).log)

\* The tokens of a map of scalars are map-begin, then key, map-value, value
\* and map-next per pair: the j-th key is token 4j - 2.
KeyToken(log, j) == log[4 * j - 2]

TokenLess(x, y) ==
  IF x.op = "EmitInt" /\ y.op = "EmitInt" THEN x.arg < y.arg
  ELSE x.op = "EmitString" /\ y.op = "EmitString" /\ StrRank(x.arg) < StrRank(y.arg)

\* C8: with SortMapKeys set, the Emitter calls made for a value depend on
\* the contents of its maps only, not on their iteration order: they are
\* the calls made for the value with every map listed in ascending key
\* order, for all map types, for maps nested in map values, array elements,
\* record fields, pointers and map callbacks, and through
\* StreamEncoder.Encode; and the keys of a map are emitted in ascending order.
C8_SortedKeysDeterministic ==
  /\ (enc.SortMapKeys /\ op[1] = "Encode")
       => Tokens = SortedLog(Canon(op[2]), em.failAt)
  /\ (enc.SortMapKeys /\ op[1] = "StreamEncode" /\ em.failAt = 0)
       => Tokens = <<[op |-> "EmitArrayBegin", arg |-> -1]>> \o SortedLog(Canon(op[2]), 0)
  /\ (enc.SortMapKeys /\ op[1] = "Encode" /\ op[2] \in FlatMaps /\ ret = NoErr)
       => \A j \in 1..(Len(op[2].pairs) - 1) :
            TokenLess(KeyToken(Tokens, j), KeyToken(Tokens, j + 1))

C8_Witness ==
  /\ enc.SortMapKeys
  /\ op = <<"Encode",
            Slice(<<MapOf("string", "string",
                          <<<<StrV("b"), StrV("a")>>, <<StrV("a"), StrV("a")>>>>)>>)>>
  /\ ret = NoErr
  /\ Tokens[3] = [op |-> "EmitString", arg |-> "a"]
  /\ Tokens[7] = [op |-> "EmitString", arg |-> "b"]


\* ------------------------------------------------------------------
\* The RESP wire format.  A byte is a one-character string; a message
\* on the wire is a sequence of bytes.
\* ------------------------------------------------------------------

CR == "\r"

LF == "\n"

CRLF == <<CR, LF>>

DigitChars == <<"0", "1", "2", "3", "4", "5", "6", "7", "8", "9">>

ErrEOF == "io.EOF"

ErrProto == "resp: protocol error"

\* Messages as they are written on the wire.
Bulk(bs) == [k |-> "bulk", v |-> bs]

Simple(bs) == [k |-> "simple", v |-> bs]

IntE(x) == [k |-> "int", v |-> x]

Arr(xs) == [k |-> "array", v |-> xs]

ErrorE(bs) == [k |-> "error", v |-> bs]

NilBulk == [k |-> "nilbulk", v |-> 0]

NilArray == [k |-> "nilarray", v |-> 0]

RECURSIVE Digits(_)
Digits(x) ==
  IF x < 10 THEN <<DigitChars[x + 1]>>
  ELSE Digits(x \div 10) \o <<DigitChars[(x % 10) + 1]>>

Decimal(x) == IF x < 0 THEN <<"-">> \o Digits(0 - x) ELSE Digits(x)

RECURSIVE Wire(_)
RECURSIVE WireAll(_)
\* The bytes of one message.
Wire(m) ==
  CASE m.k = "bulk"     -> <<"$">> \o Decimal(Len(m.v)) \o CRLF \o m.v \o CRLF
    [] m.k = "simple"   -> <<"+">> \o m.v \o CRLF
    [] m.k = "error"    -> <<"-">> \o m.v \o CRLF
    [] m.k = "int"      -> <<":">> \o Decimal(m.v) \o CRLF
    [] m.k = "array"    -> <<"*">> \o Decimal(Len(m.v)) \o CRLF \o WireAll(m.v)
    [] m.k = "nilbulk"  -> <<"$">> \o Decimal(-1) \o CRLF
    [] m.k = "nilarray" -> <<"*">> \o Decimal(-1) \o CRLF

\* The bytes of messages written back-to-back.
WireAll(ms) ==
  IF ms = <<>> THEN <<>> ELSE Wire(Head(ms)) \o WireAll(Tail(ms))

\* Values as the decoder returns them.
NilValue == [k |-> "nil", v |-> 0]

RECURSIVE ValueOf(_)
ValueOf(m) ==
  CASE m.k = "bulk"   -> [k |-> "bytes", v |-> m.v]
    [] m.k = "simple" -> [k |-> "string", v |-> m.v]
    [] m.k = "error"  -> [k |-> "error", v |-> m.v]
    [] m.k = "int"    -> [k |-> "int", v |-> m.v]
    [] m.k = "array"  -> [k |-> "array", v |-> [i \in 1..Len(m.v) |-> ValueOf(m.v[i])]]
    [] OTHER          -> NilValue

KindOf(m) ==
  CASE m.k = "bulk"   -> "Bytes"
    [] m.k = "simple" -> "String"
    [] m.k = "error"  -> "Error"
    [] m.k = "int"    -> "Int"
    [] m.k = "array"  -> "Array"
    [] OTHER          -> "Nil"


\* ------------------------------------------------------------------
\* The RESP Parser: a cursor over the input bytes.  Every operation
\* returns the parser it leaves, the value it read and its error.
\* ------------------------------------------------------------------

NewParser(in) == [in |-> in, pos |-> 1]

Parsed(p, v, e) == [pr |-> p, val |-> v, err |-> e]

AtEOF(p) == p.pos > Len(p.in)

IsDigit(b) == \E i \in 1..10 : DigitChars[i] = b

DigitVal(b) == (CHOOSE i \in 1..10 : DigitChars[i] = b) - 1

RECURSIVE DigitsVal(_)
DigitsVal(bs) ==
  IF bs = <<>> THEN 0
  ELSE DigitsVal(SubSeq(bs, 1, Len(bs) - 1)) * 10 + DigitVal(bs[Len(bs)])

AllDigits(bs) == bs # <<>> /\ \A i \in 1..Len(bs) : IsDigit(bs[i])

\* Is the text a decimal number, and which one.
IsDecimal(bs) ==
  IF bs # <<>> /\ bs[1] = "-" THEN AllDigits(Tail(bs)) ELSE AllDigits(bs)

Atoi(bs) == IF bs[1] = "-" THEN 0 - DigitsVal(Tail(bs)) ELSE DigitsVal(bs)

\* Index of the first CRLF at or after from, 0 when there is none.
LineEnd(in, from) ==
  LET ends == {i \in from..(Len(in) - 1) : in[i] = CR /\ in[i + 1] = LF}
  IN IF ends = {} THEN 0 ELSE CHOOSE i \in ends : \A j \in ends : i <= j

\* The kind the prefix at the cursor announces.
peekKind(p) ==
  IF AtEOF(p) THEN Parsed(p, "Unknown", ErrEOF)
  ELSE CASE p.in[p.pos] = "+" -> Parsed(p, "String", NoErr)
         [] p.in[p.pos] = "-" -> Parsed(p, "Error", NoErr)
         [] p.in[p.pos] = ":" -> Parsed(p, "Int", NoErr)
         [] p.in[p.pos] = "$" ->
              IF p.pos < Len(p.in) /\ p.in[p.pos + 1] = "-"
              THEN Parsed(p, "Nil", NoErr) ELSE Parsed(p, "Bytes", NoErr)
         [] p.in[p.pos] = "*" ->
              IF p.pos < Len(p.in) /\ p.in[p.pos + 1] = "-"
              THEN Parsed(p, "Nil", NoErr) ELSE Parsed(p, "Array", NoErr)
         [] OTHER -> Parsed(p, "Unknown", ErrProto)

\* A mutation: ParseType steps over the prefix byte.
ParseTypeConsuming(p) ==
  Parsed([p EXCEPT !.pos = IF AtEOF(p) THEN p.pos ELSE p.pos + 1],
         peekKind(p).val, peekKind(p).err)

\* ParseType peeks at the prefix and consumes nothing.
ParseType(p) == peekKind(p)

\* The line after the one-byte prefix: its text, and the parser past
\* its CRLF.
parseLine(p, prefix) ==
  IF AtEOF(p) THEN Parsed(p, <<>>, ErrEOF)
  ELSE IF p.in[p.pos] # prefix THEN Parsed(p, <<>>, ErrProto)
  ELSE IF LineEnd(p.in, p.pos + 1) = 0 THEN Parsed(p, <<>>, ErrEOF)
  ELSE Parsed([p EXCEPT !.pos = LineEnd(p.in, p.pos + 1) + 2],
              SubSeq(p.in, p.pos + 1, LineEnd(p.in, p.pos + 1) - 1), NoErr)

\* The decimal number on the line after the prefix.
numberOf(l) ==
  IF l.err # NoErr THEN Parsed(l.pr, 0, l.err)
  ELSE IF ~IsDecimal(l.val) THEN Parsed(l.pr, 0, ErrProto)
  ELSE Parsed(l.pr, Atoi(l.val), NoErr)

ParseInt(p) == numberOf(parseLine(p, ":"))

ParseArrayBegin(p) == numberOf(parseLine(p, "*"))

ParseArrayNext(p, n) == Parsed(p, 0, NoErr)

ParseArrayEnd(p, n) == Parsed(p, 0, NoErr)

ParseString(p) == parseLine(p, "+")

\* The message of an error: the line after "-".
ParseError(p) == parseLine(p, "-")

\* The n bytes after the length line, then CRLF.
bytesOf(h) ==
  IF h.err # NoErr THEN Parsed(h.pr, <<>>, h.err)
  ELSE IF h.val < 0 THEN Parsed(h.pr, <<>>, ErrProto)
  ELSE IF h.pr.pos + h.val + 1 > Len(h.pr.in) THEN Parsed(h.pr, <<>>, ErrEOF)
  ELSE IF SubSeq(h.pr.in, h.pr.pos + h.val, h.pr.pos + h.val + 1) # CRLF
       THEN Parsed(h.pr, <<>>, ErrProto)
  ELSE Parsed([h.pr EXCEPT !.pos = h.pr.pos + h.val + 2],
              SubSeq(h.pr.in, h.pr.pos, h.pr.pos + h.val - 1), NoErr)

ParseBytes(p) == bytesOf(numberOf(parseLine(p, "$")))

\* ParseNil accepting the null bulk string only.
ParseNilBulkOnly(p) ==
  IF parseLine(p, "$").err # NoErr
  THEN Parsed(parseLine(p, "$").pr, 0, parseLine(p, "$").err)
  ELSE IF parseLine(p, "$").val # Decimal(-1)
  THEN Parsed(parseLine(p, "$").pr, 0, ErrProto)
  ELSE Parsed(parseLine(p, "$").pr, 0, NoErr)

\* Either spelling of null: "$-1" or "*-1".
nilOf(l) ==
  IF l.err # NoErr THEN Parsed(l.pr, 0, l.err)
  ELSE IF l.val # Decimal(-1) THEN Parsed(l.pr, 0, ErrProto)
  ELSE Parsed(l.pr, 0, NoErr)

ParseNil(p) ==
  IF ~AtEOF(p) /\ p.in[p.pos] = "*" THEN nilOf(parseLine(p, "*"))
  ELSE nilOf(parseLine(p, "$"))


\* ------------------------------------------------------------------
\* The Decoder: reads one whole message as a value.
\* ------------------------------------------------------------------

Valued(r, k) ==
  IF r.err # NoErr THEN Parsed(r.pr, NilValue, r.err)
  ELSE Parsed(r.pr, [k |-> k, v |-> r.val], NoErr)

RECURSIVE Decode(_)
RECURSIVE decodeArray(_, _, _)
RECURSIVE decodeArrayElem(_, _, _)
decodeArrayElem(r, n, acc) ==
  IF r.err # NoErr THEN Parsed(r.pr, NilValue, r.err)
  ELSE decodeArray(r.pr, n, Append(acc, r.val))

\* The n elements after the array header.
decodeArray(p, n, acc) ==
  IF Len(acc) >= n THEN Parsed(p, [k |-> "array", v |-> acc], NoErr)
  ELSE decodeArrayElem(Decode(p), n, acc)

decodeArrayBegin(r) ==
  IF r.err # NoErr THEN Parsed(r.pr, NilValue, r.err)
  ELSE decodeArray(r.pr, r.val, <<>>)

decodeOf(p, t) ==
  IF t.err # NoErr THEN Parsed(p, NilValue, t.err)
  ELSE CASE t.val = "Int"    -> Valued(ParseInt(p), "int")
         [] t.val = "Bytes"  -> Valued(ParseBytes(p), "bytes")
         [] t.val = "String" -> Valued(ParseString(p), "string")
         [] t.val = "Error"  -> Valued(ParseError(p), "error")
         [] t.val = "Nil"    -> Valued(ParseNil(p), "nil")
         [] t.val = "Array"  -> decodeArrayBegin(ParseArrayBegin(p))
         [] OTHER            -> Parsed(p, NilValue, ErrUnsupported)

Decode(p) == decodeOf(p, ParseType(p))

\* ------------------------------------------------------------------
\* StreamDecoder: err, typ, cnt, max over a Parser.  A session is the
\* decoder, the parser, and what the last call returned.
\* ------------------------------------------------------------------

NewStreamDecoder == [err |-> NoErr, typ |-> "Unknown", cnt |-> 0, max |-> 0]

Decoding(d, p, r, v) == [sd |-> d, pr |-> p, ret |-> r, val |-> v]

initArray(d, a) ==
  [err |-> a.err, typ |-> "Array", cnt |-> d.cnt, max |-> a.val]

initOf(d, p, t) ==
  IF t.err # NoErr
  THEN Decoding([err |-> t.err, typ |-> "Unknown", cnt |-> d.cnt, max |-> 0],
                p, t.err, NilValue)
  ELSE IF t.val = "Array"
  THEN Decoding(initArray(d, ParseArrayBegin(p)), ParseArrayBegin(p).pr,
                ParseArrayBegin(p).err, NilValue)
  ELSE Decoding([err |-> NoErr, typ |-> t.val, cnt |-> d.cnt, max |-> 1],
                p, NoErr, NilValue)

\* init reads the type of the frame, and its count when it is an array.
StreamDecoderInit(d, p) == initOf(d, p, ParseType(p))

\* Len: the elements remaining in the current frame.
lenOf(s) ==
  IF s.sd.err # NoErr THEN [s EXCEPT !.ret = 0]
  ELSE [s EXCEPT !.ret = s.sd.max - s.sd.cnt]

StreamLen(d, p) ==
  IF d.err # NoErr THEN Decoding(d, p, 0, NilValue)
  ELSE IF d.typ = "Unknown" THEN lenOf(StreamDecoderInit(d, p))
  ELSE Decoding(d, p, d.max - d.cnt, NilValue)

\* A mutation: the frame ends one element early.
AtEndOneEarly(d) == d.cnt + 1 >= d.max

AtEnd(d) == d.cnt = d.max

decodeElement(d, r) ==
  IF r.err # NoErr
  THEN Decoding([d EXCEPT !.err = r.err], r.pr, r.err, NilValue)
  ELSE Decoding([d EXCEPT !.cnt = d.cnt + 1], r.pr, NoErr, r.val)

\* After the frame is opened: End at the declared count, else one
\* element.
decodeOpened(s) ==
  IF s.sd.err # NoErr THEN s
  ELSE IF AtEnd(s.sd)
  THEN Decoding([s.sd EXCEPT !.err = End], ParseArrayEnd(s.pr, s.sd.cnt).pr,
                End, NilValue)
  ELSE decodeElement(s.sd, Decode(ParseArrayNext(s.pr, s.sd.cnt).pr))

StreamDecode(d, p) ==
  IF d.err # NoErr THEN Decoding(d, p, d.err, NilValue)
  ELSE IF d.typ = "Unknown" THEN decodeOpened(StreamDecoderInit(d, p))
  ELSE decodeOpened(Decoding(d, p, NoErr, NilValue))

\* A mutation: Next keeps the state of the drained frame.
StreamNextKeepsFrame(d, p) == Decoding(d, p, NoErr, NilValue)

\* Next: leave the drained frame; the next call opens the frame that
\* starts at the parser's cursor.
StreamNext(d, p) == Decoding(NewStreamDecoder, p, NoErr, NilValue)


----------------------------------------------------------------------------
(* Pipelined RESP input: array frames written back-to-back.  A frame is    *)
(* the sequence of its elements.                                           *)

MaxFrames == 2

MaxExtra == 1

\* A bulk string whose content looks like the start of another frame.
BulkLikeFrame == Bulk(<<CR, LF, "*", "2", CR, LF>>)

\* A bulk string whose length has two digits.
BulkLong == Bulk(<<"r", "e", "s", "p", ":", " ", "P", "a", "r", "s", "e">>)

FrameSet ==
  { <<>>,
    <<IntE(1), IntE(2), IntE(3)>>,
    <<Bulk(<<"g", "e", "t">>), BulkLikeFrame>>,
    <<BulkLong, IntE(-12), Bulk(<<>>)>>,
    <<Simple(<<"O", "K">>), Arr(<<IntE(7), NilArray>>), NilBulk>>,
    [i \in 1..10 |-> IntE(i)] }

Inputs == { fs \in SeqsUpTo(FrameSet, MaxFrames) : fs # <<>> }

Frame(i) == Arr(frames[i])

\* Offset of the first byte of frame i in the input.
FrameStart(i) == 1 + Len(WireAll([j \in 1..(i - 1) |-> Frame(j)]))

\* Length of the header "*<n>\r\n" of frame i.
HeaderLen(i) == Len(Wire(Arr(<<>>))) - 1 + Len(Decimal(Len(frames[i])))

\* Offset after the first k elements of frame i.
ElemEnd(i, k) ==
  FrameStart(i) + HeaderLen(i) + Len(WireAll(SubSeq(frames[i], 1, k)))

NoEnc ==
  /\ NoCache
  /\ se = NewStreamEncoder(FALSE, FALSE)
  /\ em = [log |-> <<>>, n |-> 0, failAt |-> 0]
  /\ enc = NewEncoder(FALSE)

\* What the calls on one frame have returned so far.
NewRound == [len |-> -1, vals |-> <<>>, rets |-> <<>>]

Cur == out[Len(out)]

InitResp ==
  /\ frames \in Inputs
  /\ pr = NewParser(WireAll([i \in 1..Len(frames) |-> Frame(i)]))
  /\ sd = NewStreamDecoder
  /\ op = <<"new">>
  /\ ret = NoErr
  /\ nops = 0
  /\ NoEnc

----------------------------------------------------------------------------
(* Specification SpecParser: the messages are read with the Parser's own   *)
(* operations, as TestParserWithPipeline does.                             *)

InitParser == InitResp /\ out = <<>>

MessageDone == IF out = <<>> THEN TRUE ELSE Len(Cur.vals) = Cur.len

ParserStep(r, o, newout) ==
  /\ pr' = r.pr
  /\ ret' = IF r.err # NoErr THEN r.err ELSE r.val
  /\ op' = o
  /\ out' = newout
  /\ UNCHANGED <<encVars, cacheVars, nops, sd, frames>>

PType ==
  /\ op[1] # "ParseType"
  /\ ParserStep(ParseType(pr), <<"ParseType">>, out)

PArrayBegin ==
  /\ MessageDone
  /\ Len(out) < Len(frames)
  /\ ParserStep(ParseArrayBegin(pr), <<"ParseArrayBegin">>,
                Append(out, [NewRound EXCEPT !.len = ParseArrayBegin(pr).val,
                                             !.rets = <<ParseArrayBegin(pr).err>>]))

Token(r, o) ==
  /\ ~MessageDone
  /\ ParserStep(r, o,
                [out EXCEPT ![Len(out)].vals = Append(@, r.val),
                            ![Len(out)].rets = Append(@, r.err)])

PInt ==
  /\ ParseType(pr).val = "Int"
  /\ Token(Valued(ParseInt(pr), "int"), <<"ParseInt">>)

PBytes ==
  /\ ParseType(pr).val = "Bytes"
  /\ Token(Valued(ParseBytes(pr), "bytes"), <<"ParseBytes">>)

POther ==
  /\ ParseType(pr).val \notin {"Int", "Bytes"}
  /\ Token(Decode(pr), <<"Decode">>)

NextParser == PType \/ PArrayBegin \/ PInt \/ PBytes \/ POther

SpecParser == InitParser /\ [][NextParser]_vars

----------------------------------------------------------------------------
(* Specification SpecDec: the frames are read through one StreamDecoder    *)
(* with Len, Decode and Next, as TestParserWithPipelineOfStreamDecoder     *)
(* does.  Decode is called up to MaxExtra times more after a frame has     *)
(* ended; Next is called on a drained frame.                               *)

InitDec == InitResp /\ out = <<NewRound>>

Errors(rets) == Len(SelectSeq(rets, LAMBDA e : e # NoErr))

DecStep(s, o, newout) ==
  /\ sd' = s.sd
  /\ pr' = s.pr
  /\ ret' = s.ret
  /\ op' = o
  /\ out' = newout
  /\ UNCHANGED <<encVars, cacheVars, nops, frames>>

DLen ==
  /\ op[1] # "Len"
  /\ DecStep(StreamLen(sd, pr), <<"Len">>,
             IF Cur.rets = <<>>
             THEN [out EXCEPT ![Len(out)].len = StreamLen(sd, pr).ret]
             ELSE out)

Decoded(s) ==
  DecStep(s, <<"Decode">>,
          [out EXCEPT ![Len(out)].rets = Append(@, s.ret),
                      ![Len(out)].vals =
                         IF s.ret = NoErr THEN Append(@, s.val) ELSE @])

DDecode ==
  /\ Errors(Cur.rets) <= MaxExtra
  /\ Decoded(StreamDecode(sd, pr))

DNext ==
  /\ sd.err = End
  /\ Len(out) <= Len(frames)
  /\ DecStep(StreamNext(sd, pr), <<"Next">>, Append(out, NewRound))

NextDec == DLen \/ DDecode \/ DNext

SpecDec == InitDec /\ [][NextDec]_vars


----------------------------------------------------------------------------
(* Claims about the RESP Parser, checked under SpecParser. *)

\* The values of the first k elements of frame i.
ValuesOf(i, k) == [j \in 1..k |-> ValueOf(frames[i][j])]

\* What the message at the cursor is, told from the frames written.
ExpectedKind ==
  IF MessageDone
  THEN IF Len(out) < Len(frames) THEN "Array" ELSE ErrEOF
  ELSE KindOf(frames[Len(out)][Len(Cur.vals) + 1])

\* Every message begun so far gave its own count and its own elements,
\* and the cursor is just after the last token consumed.
ParserInSync ==
  /\ \A i \in 1..Len(out) :
       /\ out[i].len = Len(frames[i])
       /\ Len(out[i].vals) <= out[i].len
       /\ out[i].vals = ValuesOf(i, Len(out[i].vals))
       /\ \A j \in 1..Len(out[i].rets) : out[i].rets[j] = NoErr
  /\ pr.pos = IF out = <<>> THEN 1 ELSE ElemEnd(Len(out), Len(Cur.vals))
  /\ (out # <<>> /\ MessageDone) => pr.pos = FrameStart(Len(out) + 1)

\* C7: ParseType returns the kind of the next message and consumes
\* nothing, so the parse operation after it reads that message in full;
\* after ParseArrayBegin has returned n and n element tokens have been
\* consumed the cursor is at the first byte of the next message, and each
\* of the concatenated messages gives its own type, count and elements.
C7_ParserPipelining ==
  [][ /\ op'[1] = "ParseType" => (pr' = pr /\ ret' = ExpectedKind)
      /\ ParserInSync' ]_vars

\* The first message, whose second element holds bytes that look like a
\* frame, has been consumed, and ParseType has peeked at the second.
C7_Witness ==
  /\ Len(frames) = 2
  /\ Len(out) = 1
  /\ Len(frames[1]) = 2
  /\ frames[1][2] = BulkLikeFrame
  /\ out[1].vals = <<[k |-> "bytes", v |-> <<"g", "e", "t">>],
                     [k |-> "bytes", v |-> <<CR, LF, "*", "2", CR, LF>>]>>
  /\ op = <<"ParseType">>
  /\ ret = "Array"
  /\ pr.pos = FrameStart(2)

----------------------------------------------------------------------------
(* Claims about the StreamDecoder, checked under SpecDec. *)

\* The rounds that read a frame of the input.
Rounds == 1..(IF Len(out) <= Len(frames) THEN Len(out) ELSE Len(frames))

\* C5: reading pipelined array frames with (Len, Decode until it returns
\* an error, Next): in round i Len is the declared count of frame i, the
\* values decoded are frame i's elements in order, the error that ends
\* the round is End and comes when all of them have been decoded, no
\* byte of frame i+1 is consumed before Next, and Next returns no error.
C5_PipelinedFrames ==
  /\ \A i \in Rounds :
       /\ out[i].len \in {-1, Len(frames[i])}
       /\ Len(out[i].vals) <= Len(frames[i])
       /\ out[i].vals = ValuesOf(i, Len(out[i].vals))
       /\ \A j \in 1..Len(out[i].rets) : out[i].rets[j] \in {NoErr, End}
       /\ Errors(out[i].rets) > 0 => Len(out[i].vals) = Len(frames[i])
       /\ i < Len(out) => Errors(out[i].rets) > 0
  /\ Len(out) <= Len(frames) =>
       /\ pr.pos <= FrameStart(Len(out) + 1)
       /\ sd.err = End => pr.pos = FrameStart(Len(out) + 1)
       /\ (op[1] = "Len" /\ Cur.rets = <<>>) => ret = Len(frames[Len(out)])
       /\ op[1] = "Len" => ret = Len(frames[Len(out)]) - Len(Cur.vals)
  /\ op[1] = "Next" => (ret = NoErr /\ pr.pos = FrameStart(Len(out)))

\* Two frames were read in two rounds, Len first in each; the first frame
\* holds bytes that look like a frame, and the last Decode returned End.
C5_Witness ==
  /\ Len(frames) = 2
  /\ Len(out) = 2
  /\ Len(frames[1]) = 2
  /\ frames[1][2] = BulkLikeFrame
  /\ out[1].len = 2
  /\ Len(out[1].vals) = 2
  /\ Len(frames[2]) = 3
  /\ out[2].len = 3
  /\ Len(out[2].vals) = 3
  /\ op = <<"Decode">>
  /\ ret = End

\* C6: on a frame declaring n elements the first n Decode calls succeed
\* and return the elements in wire order, and call n+1 and every later
\* call on that frame return End.
C6_EndAfterDeclaredCount ==
  \A i \in Rounds :
    /\ \A j \in 1..Len(out[i].rets) :
         out[i].rets[j] = IF j <= Len(frames[i]) THEN NoErr ELSE End
    /\ \A j \in 1..Len(out[i].vals) :
         j <= Len(frames[i]) /\ out[i].vals[j] = ValueOf(frames[i][j])
    /\ (i = Len(out) /\ op[1] = "Decode") =>
         ret = out[i].rets[Len(out[i].rets)]

\* The frame *3 :1 :2 :3 gave 1, 2, 3 and then End on the fourth and the
\* fifth call.
C6_Witness ==
  /\ Len(out) <= Len(frames)
  /\ frames[Len(out)] = <<IntE(1), IntE(2), IntE(3)>>
  /\ Cur.vals = <<[k |-> "int", v |-> 1], [k |-> "int", v |-> 2],
                  [k |-> "int", v |-> 3]>>
  /\ Cur.rets = <<NoErr, NoErr, NoErr, End, End>>
  /\ op = <<"Decode">>
  /\ ret = End

----------------------------------------------------------------------------
(* Claims about records, checked under SpecEnc. *)

\* The fields of fs that are not left out: omitempty is not set or the
\* value is not the zero value of its type.
RECURSIVE KeptFields(_)
KeptFields(fs) ==
  IF fs = <<>> THEN <<>>
  ELSE (IF Head(fs).omitempty /\ IsZero(Head(fs).val) THEN <<>> ELSE <<Head(fs)>>)
         \o KeptFields(Tail(fs))

\* The calls a record of integer fields is to give: one pair per kept
\* field, key then separator then value, in the order of the fields.
RECURSIVE PairsLog(_, _)
PairsLog(fs, first) ==
  IF fs = <<>> THEN <<>>
  ELSE (IF first THEN <<>> ELSE <<[op |-> "EmitMapNext", arg |-> 0]>>)
         \o <<[op |-> "EmitString", arg |-> Head(fs).name],
              [op |-> "EmitMapValue", arg |-> 0],
              [op |-> "EmitInt", arg |-> Head(fs).val.v]>>
         \o PairsLog(Tail(fs), FALSE)

RecordLog(fs) ==
  <<[op |-> "EmitMapBegin", arg |-> Len(KeptFields(fs))]>>
    \o PairsLog(KeptFields(fs), TRUE)
    \o <<[op |-> "EmitMapEnd", arg |-> 0]>>

\* The keys of the outermost record of log, in the order emitted: the
\* strings at depth 1 that a map-value separator follows.
RECURSIVE TopKeys(_, _)
TopKeys(log, i) ==
  IF i >= Len(log) THEN <<>>
  ELSE (IF /\ log[i].op = "EmitString" /\ DepthAt(log, i) = 1
           /\ log[i + 1].op = "EmitMapValue"
        THEN <<log[i].arg>> ELSE <<>>) \o TopKeys(log, i + 1)

\* C11: a field whose omit predicate holds gives no key, no separator and
\* no value; every other field gives exactly one pair under its declared
\* name; the pairs come in the order of the field list.
C11_OmitAndFieldOrder ==
  /\ (op[1] = "Encode" /\ op[2] \in Structs /\ em.failAt = 0)
       => (ret = NoErr /\ Tokens = RecordLog(op[2].fields))
  /\ (op[1] = "Encode" /\ op[2] \in DeepStructs /\ ret = NoErr)
       => /\ TopKeys(Tokens, 1) =
               [i \in 1..Len(KeptFields(op[2].fields)) |->
                  KeptFields(op[2].fields)[i].name]
          /\ NumOf(Tokens, "EmitMapValue") >= Len(KeptFields(op[2].fields))

\* One omitempty field at zero between two fields that are kept.
C11_Witness ==
  /\ op = <<"Encode", Struct(<<Field("a", FALSE, IntV(0)), Field("b", TRUE, IntV(0)),
                               Field("c", TRUE, IntV(1))>>)>>
  /\ Tokens = <<[op |-> "EmitMapBegin", arg |-> 2],
                [op |-> "EmitString", arg |-> "a"],
                [op |-> "EmitMapValue", arg |-> 0],
                [op |-> "EmitInt", arg |-> 0],
                [op |-> "EmitMapNext", arg |-> 0],
                [op |-> "EmitString", arg |-> "c"],
                [op |-> "EmitMapValue", arg |-> 0],
                [op |-> "EmitInt", arg |-> 1],
                [op |-> "EmitMapEnd", arg |-> 0]>>

----------------------------------------------------------------------------
(* Further claims about the StreamEncoder, checked under Spec. *)

\* C12: on a closed StreamEncoder, Open(n) and Encode(v) return an error,
\* make no Emitter call and leave the count, the declared maximum and the
\* opened and closed flags unchanged; the error is the one the session has
\* stored when an earlier call failed, and io.ErrClosedPipe otherwise.
C12_ClosedSessionRejects ==
  [][ (se.closed /\ op'[1] \in {"Open", "Encode"})
        => /\ ret' = (IF se.err # NoErr THEN se.err ELSE ErrClosedPipe)
           /\ em' = em
           /\ se' = se ]_vars

\* C12 as stated: the error is io.ErrClosedPipe in every closed session.
C12_AlwaysClosedPipe ==
  [][ (se.closed /\ op'[1] \in {"Open", "Encode"})
        => /\ ret' = ErrClosedPipe
           /\ em' = em
           /\ se' = se ]_vars

\* Encode was called on a closed session that has no stored error.
C12_Witness ==
  /\ op[1] = "Encode"
  /\ se.closed
  /\ se.err = NoErr
  /\ ret = ErrClosedPipe
  /\ em.n = 2

----------------------------------------------------------------------------
(* The RESP Emitter's choice of framing for a string, and specification    *)
(* SpecCodec: one message is marshalled, classified and unmarshalled, as   *)
(* TestParser and TestUnmarshal do with the messages of respDecodeTests.   *)

MaxStr == 3

Alphabet == {CR, LF, "a", "$"}

Strings == SeqsUpTo(Alphabet, MaxStr)

HasCRLF(s) == LineEnd(s, 1) # 0

EmitBytes(s) == Wire(Bulk(s))

\* EmitString writing a simple string whatever the content.
EmitStringAlwaysSimple(s) == Wire(Simple(s))

\* A string holding CRLF is written as a bulk byte-string.
EmitString(s) == IF HasCRLF(s) THEN EmitBytes(s) ELSE Wire(Simple(s))

StrGo(s) == [k |-> "gostring", v |-> s]

\* The messages read as given, and the strings to marshal first.
Fixtures ==
  {NilBulk, NilArray, IntE(0), IntE(-1), IntE(42), Arr(<<>>),
   Arr(<<IntE(1), IntE(2), IntE(3)>>),
   Simple(<<>>), Simple(<<"H", "i", LF, "!">>),
   ErrorE(<<>>), ErrorE(<<"o", "o", "p", "s">>), ErrorE(<<"E", "R", "R", " ", "A">>)}
    \cup { Bulk(s) : s \in Strings }

InitCodec ==
  /\ \/ \E m \in Fixtures : frames = <<m>> /\ pr = NewParser(Wire(m))
     \/ \E s \in Strings : frames = <<StrGo(s)>> /\ pr = NewParser(<<>>)
  /\ out = <<>>
  /\ sd = NewStreamDecoder
  /\ op = <<"new">>
  /\ ret = NoErr
  /\ nops = 0
  /\ NoEnc

Marshal ==
  /\ op = <<"new">>
  /\ frames[1].k = "gostring"
  /\ pr' = NewParser(EmitString(frames[1].v))
  /\ op' = <<"Marshal">>
  /\ UNCHANGED <<encVars, cacheVars, nops, sd, frames, out, ret>>

Unread == pr.in # <<>> /\ pr.pos = 1

CodecParseType ==
  /\ Unread
  /\ op[1] # "ParseType"
  /\ pr' = ParseType(pr).pr
  /\ ret' = IF ParseType(pr).err # NoErr THEN ParseType(pr).err ELSE ParseType(pr).val
  /\ op' = <<"ParseType">>
  /\ UNCHANGED <<encVars, cacheVars, nops, sd, frames, out>>

Unmarshal ==
  /\ Unread
  /\ pr' = Decode(pr).pr
  /\ ret' = Decode(pr).err
  /\ out' = <<Decode(pr).val>>
  /\ op' = <<"Unmarshal">>
  /\ UNCHANGED <<encVars, cacheVars, nops, sd, frames>>

\* (*Parser).Reset(r): the parser is put on a new input, from its start.
Reset(p, in) == [p EXCEPT !.in = in, !.pos = 1]

\* One parser reused for the next message: r.Reset(test.s); p.Reset(r)
CodecReset ==
  /\ \E m \in Fixtures :
       /\ frames' = <<m>>
       /\ pr' = Reset(pr, Wire(m))
  /\ out' = <<>>
  /\ ret' = NoErr
  /\ op' = <<"Reset">>
  /\ UNCHANGED <<encVars, cacheVars, nops, sd>>

NextCodec == Marshal \/ CodecParseType \/ Unmarshal \/ CodecReset

SpecCodec == InitCodec /\ [][NextCodec]_vars

----------------------------------------------------------------------------
(* Claims about the RESP codec, checked under SpecCodec. *)

\* C13: the null bulk string "$-1\r\n" and the null array "*-1\r\n" are
\* each classified by ParseType as Nil, and each decodes as nil without
\* error, the whole message being consumed.
C13_BothNilSpellings ==
  frames[1] \in {NilBulk, NilArray}
    => /\ op[1] = "ParseType" => ret = "Nil"
       /\ op[1] = "Unmarshal" =>
            (ret = NoErr /\ out = <<NilValue>> /\ pr.pos = Len(pr.in) + 1)

\* The null array has been unmarshalled.
C13_Witness ==
  /\ pr.in = <<"*", "-", "1", CR, LF>>
  /\ op = <<"Unmarshal">>
  /\ ret = NoErr
  /\ out = <<[k |-> "nil", v |-> 0]>>

\* C14: every string over an alphabet with CR and LF decodes from its
\* emitted form to itself; a simple string is never written with CRLF in
\* its body, such a string being written as a bulk byte-string whose
\* declared length is the string's length; and a bulk byte-string of
\* declared length n is read as exactly n body bytes and the CRLF after
\* them, whatever bytes the body holds.
C14_StringRoundTrip ==
  /\ (frames[1].k = "gostring" /\ op[1] # "new") =>
       /\ pr.in[1] = "+" => ~HasCRLF(SubSeq(pr.in, 2, Len(pr.in) - 2))
       /\ HasCRLF(frames[1].v) =>
            pr.in = <<"$">> \o Decimal(Len(frames[1].v)) \o <<CR, LF>>
                      \o frames[1].v \o <<CR, LF>>
       /\ ~HasCRLF(frames[1].v) => pr.in = <<"+">> \o frames[1].v \o <<CR, LF>>
       /\ op[1] = "Unmarshal" =>
            /\ ret = NoErr
            /\ out[1].k \in {"string", "bytes"}
            /\ out[1].v = frames[1].v
            /\ pr.pos = Len(pr.in) + 1
  /\ (frames[1].k = "bulk" /\ op[1] = "Unmarshal") =>
       /\ ret = NoErr
       /\ out = <<[k |-> "bytes", v |-> frames[1].v]>>
       /\ pr.pos = 1 + Len(Decimal(Len(frames[1].v))) + 2 + Len(frames[1].v) + 2 + 1

\* A string that starts with CRLF was marshalled as a bulk byte-string and
\* unmarshalled.
C14_Witness ==
  /\ frames = <<[k |-> "gostring", v |-> <<CR, LF, "$">>]>>
  /\ pr.in = <<"$", "3", CR, LF, CR, LF, "$", CR, LF>>
  /\ op = <<"Unmarshal">>
  /\ ret = NoErr
  /\ out = <<[k |-> "bytes", v |-> <<CR, LF, "$">>]>>

----------------------------------------------------------------------------
(* The struct field cache: structCache.lookup(t), called by encodeStruct,  *)
(* from several threads.  A descriptor list is an object of the heap; the  *)
(* cache maps a type to one.  Specification SpecCache: each thread looks   *)
(* up to MaxLookups types up, one step at a time.                          *)

NumThreads == 2

MaxLookups == 1

Threads == 1..NumThreads

StructTypes == {TypeT1, TypeT2}

InitCache ==
  /\ cache = [store |-> {}, heap |-> <<>>]
  /\ th = [i \in Threads |-> [pc |-> "idle", t |-> TypeT1, id |-> 0, res |-> <<>>]]
  /\ NoPool
  /\ se = NewStreamEncoder(FALSE, FALSE)
  /\ em = [log |-> <<>>, n |-> 0, failAt |-> 0]
  /\ enc = NewEncoder(FALSE)
  /\ pr = NewParser(<<>>)
  /\ sd = NewStreamDecoder
  /\ frames = <<>>
  /\ out = <<>>
  /\ op = <<"new">>
  /\ ret = NoErr
  /\ nops = 0

CacheStep(i, c, t) ==
  /\ cache' = c
  /\ th' = [th EXCEPT ![i] = t]
  /\ UNCHANGED <<encVars, respVars, op, ret, nops, poolVars>>

LookupBegin(i) ==
  /\ th[i].pc = "idle"
  /\ Len(th[i].res) < MaxLookups
  /\ \E t \in StructTypes :
       CacheStep(i, cache, [th[i] EXCEPT !.pc = "read", !.t = t, !.id = 0])

LookupRead(i) ==
  /\ th[i].pc = "read"
  /\ IF Entry(cache, th[i].t) # 0
     THEN CacheStep(i, cache,
                    [th[i] EXCEPT !.pc = "done", !.id = Entry(cache, th[i].t)])
     ELSE CacheStep(i, lookupMiss(cache, th[i].t),
                    [th[i] EXCEPT !.pc = "build", !.id = Len(cache.heap) + 1])

LookupBuild(i) ==
  /\ th[i].pc = "build"
  /\ Len(cache.heap[th[i].id]) < Len(FieldsOf(th[i].t))
  /\ CacheStep(i, buildField(cache, th[i].id, th[i].t), th[i])

LookupStore(i) ==
  /\ th[i].pc = "build"
  /\ Len(cache.heap[th[i].id]) = Len(FieldsOf(th[i].t))
  /\ CacheStep(i, storeEntry(cache, th[i].t, th[i].id), [th[i] EXCEPT !.pc = "done"])

LookupReturn(i) ==
  /\ th[i].pc = "done"
  /\ CacheStep(i, cache,
               [th[i] EXCEPT !.pc = "idle",
                             !.res = Append(@, [t |-> th[i].t, id |-> th[i].id,
                                                seen |-> cache.heap[th[i].id]])])

NextCache ==
  \E i \in Threads :
    \/ LookupBegin(i)
    \/ LookupRead(i)
    \/ LookupBuild(i)
    \/ LookupStore(i)
    \/ LookupReturn(i)

SpecCache == InitCache /\ [][NextCache]_vars

----------------------------------------------------------------------------
(* The claim about the struct field cache, checked under SpecCache. *)

\* C15: under every interleaving of lookups, every lookup returns the
\* complete field list of its type, a list that has been returned is not
\* changed afterwards, the cache never holds a list that is partly built,
\* and it holds exactly one entry for every type a lookup has returned.
C15_CacheSafeUnderConcurrency ==
  /\ \A i \in Threads : \A k \in 1..Len(th[i].res) :
       /\ th[i].res[k].seen = FieldsOf(th[i].res[k].t)
       /\ cache.heap[th[i].res[k].id] = th[i].res[k].seen
       /\ Cardinality({e \in cache.store : e[1] = th[i].res[k].t}) = 1
  /\ \A e \in cache.store : cache.heap[e[2]] = FieldsOf(e[1])
  /\ \A t \in StructTypes : Cardinality({e \in cache.store : e[1] = t}) <= 1

\* Both threads missed on T1 and built it, and both lookups have returned.
C15_Witness ==
  /\ Len(cache.heap) = 2
  /\ th[1].res = <<[t |-> TypeT1, id |-> 1, seen |-> <<"a", "b">>]>>
  /\ th[2].res = <<[t |-> TypeT1, id |-> 2, seen |-> <<"a", "b">>]>>
  /\ cache.store = {<<TypeT1, 1>>}

\* C16: Close on a session that was never opened and is not one-shot opens
\* it with count 0 and closes it: the Emitter receives array-begin(0) and
\* then array-end, and the session ends opened and closed.
C16_CloseOpensWithZero ==
  (nops = 1 /\ op = <<"Close">> /\ ~se.oneshot /\ em.failAt = 0)
    => /\ em.log = <<[op |-> "EmitArrayBegin", arg |-> 0],
                     [op |-> "EmitArrayEnd", arg |-> 0]>>
       /\ se.opened
       /\ se.closed
       /\ ret = NoErr

\* The Emitter calls that one value of StreamValues gives.
ValueLog(v) ==
  CASE v = IntV(1) -> <<[op |-> "EmitInt", arg |-> 1]>>
    [] v = Slice(<<IntV(1), IntV(2)>>) ->
         <<[op |-> "EmitArrayBegin", arg |-> 2], [op |-> "EmitInt", arg |-> 1],
           [op |-> "EmitArrayNext", arg |-> 0], [op |-> "EmitInt", arg |-> 2],
           [op |-> "EmitArrayEnd", arg |-> 0]>>
    [] OTHER -> <<>>

\* C17: in a session opened with a declared count n >= 1 the n-th
\* successful Encode closes the session itself and array-end is emitted
\* once, right after the n-th element; in a session of unknown count no
\* Encode closes the session or returns the capacity error.
C17_AutoCloseAtDeclaredCount ==
  [][ /\ (op'[1] = "Encode" /\ ret' = NoErr /\ se'.max >= 1 /\ se'.cnt = se'.max)
        => /\ ~se.closed
           /\ se'.closed
           /\ ~se.oneshot =>
                EmitterCalls(em'.log) = EmitterCalls(em.log)
                  \o (IF se.cnt # 0 THEN <<[op |-> "EmitArrayNext", arg |-> 0]>> ELSE <<>>)
                  \o ValueLog(op'[2])
                  \o <<[op |-> "EmitArrayEnd", arg |-> 0]>>
      /\ (op'[1] = "Encode" /\ se'.max < 0 /\ ~se.closed)
        => (~se'.closed /\ ret' # ErrTooMany) ]_vars

\* Open(2) and two Encode calls, the second of a slice: the session is
\* closed and Close was not called.
C17_Witness ==
  /\ nops = 3
  /\ op = <<"Encode", Slice(<<IntV(1), IntV(2)>>)>>
  /\ ret = NoErr
  /\ ~se.oneshot
  /\ se.max = 2
  /\ se.cnt = 2
  /\ se.closed
  /\ em.log[Len(em.log)] = [op |-> "EmitArrayEnd", arg |-> 0]
  /\ NumOf(em.log, "EmitArrayBegin") = 2

\* The calls the Emitter of the session has received so far.
StreamTokens == EmitterCalls(em.log)

\* At most one array-begin outside every element, the first call of all,
\* and at most one array-end outside every element, the last call of all.
OneBeginOneEnd ==
  \A i \in 1..Len(StreamTokens) :
    /\ (StreamTokens[i].op = "EmitArrayBegin" /\ DepthAt(StreamTokens, i) = 0) => i = 1
    /\ (StreamTokens[i].op = "EmitArrayEnd" /\ DepthAt(StreamTokens, i) = 1)
         => i = Len(StreamTokens)

\* C18: in every state reached by Open, Encode and Close, closed implies
\* opened; opened and closed never return to false; Open on an opened
\* session changes neither the declared count nor the Emitter; and the
\* Emitter receives at most one array-begin, before every element, and at
\* most one array-end, after every element.
C18_SessionLifecycle ==
  [][ /\ se'.closed => se'.opened
      /\ se.opened => se'.opened
      /\ se.closed => se'.closed
      /\ (op'[1] = "Open" /\ se.opened) => (se'.max = se.max /\ em' = em)
      /\ ~se.oneshot => OneBeginOneEnd' ]_vars

\* Open(2), two values of which one is a slice, then Open again: the
\* session has closed itself and holds one array-begin and one array-end
\* of its own.
C18_Witness ==
  /\ nops = 4
  /\ op[1] = "Open"
  /\ ~se.oneshot
  /\ se.opened
  /\ se.closed
  /\ se.max = 2
  /\ se.cnt = 2
  /\ NumOf(StreamTokens, "EmitArrayBegin") = 2
  /\ NumOf(StreamTokens, "EmitArrayEnd") = 2

\* C19: Encode on an unopened session opens it with unknown count, that
\* is array-begin(-1); in a session that is not one-shot array-next is
\* emitted before every element but the first; in a one-shot session Open,
\* Encode and Close emit no array-begin, array-next or array-end.
C19_ElementFraming ==
  [][ /\ (op'[1] = "Encode" /\ ~se.oneshot /\ ~se.opened /\ se.err = NoErr)
        => /\ se'.opened
           /\ se'.max = -1
           /\ EmitterCalls(em'.log)[1] = [op |-> "EmitArrayBegin", arg |-> -1]
      /\ (op'[1] = "Encode" /\ ~se.oneshot /\ ret' = NoErr)
        => EmitterCalls(em'.log) = EmitterCalls(em.log)
             \o (IF ~se.opened THEN <<[op |-> "EmitArrayBegin", arg |-> -1]>> ELSE <<>>)
             \o (IF se.cnt # 0 THEN <<[op |-> "EmitArrayNext", arg |-> 0]>> ELSE <<>>)
             \o ValueLog(op'[2])
             \o (IF se'.closed THEN <<[op |-> "EmitArrayEnd", arg |-> 0]>> ELSE <<>>)
      /\ (op'[1] \in {"Open", "Close"} /\ se.oneshot) => em' = em
      /\ (op'[1] = "Encode" /\ se.oneshot /\ ret' = NoErr)
        => EmitterCalls(em'.log) = EmitterCalls(em.log) \o ValueLog(op'[2]) ]_vars

\* Two Encode calls on a session that was never opened explicitly.
C19_Witness ==
  /\ nops = 2
  /\ ~se.oneshot
  /\ op = <<"Encode", IntV(1)>>
  /\ ret = NoErr
  /\ StreamTokens = <<[op |-> "EmitArrayBegin", arg |-> -1],
                      [op |-> "EmitInt", arg |-> 1],
                      [op |-> "EmitArrayNext", arg |-> 0],
                      [op |-> "EmitInt", arg |-> 1]>>

----------------------------------------------------------------------------
(* A further claim about the Encoder, checked under SpecEnc. *)

\* C20: when EncodeArray(n, f) or the encoding of a slice completes
\* without error, the Emitter calls are array-begin(n), the elements with
\* an array-next only between two consecutive elements (so each array-next
\* is followed by an element, never by array-end, and none comes before
\* the first element), and array-end; also when f ends the array with End.
C20_ArrayGrammar ==
  ( /\ \/ op[1] = "EncodeArray"
       \/ op[1] = "Encode" /\ op[2] \in Slices
    /\ ret = NoErr /\ em.failAt = 0 )
    => /\ Tokens[1].op = "EmitArrayBegin"
       /\ op[1] = "EncodeArray" => Tokens[1].arg = op[2]
       /\ Tokens[Len(Tokens)].op = "EmitArrayEnd"
       /\ \A i \in 1..Len(Tokens) :
            Tokens[i].op = "EmitArrayNext"
              => /\ i > 2
                 /\ Tokens[i - 1].op \notin {"EmitArrayBegin", "EmitArrayNext"}
                 /\ Tokens[i + 1].op \notin {"EmitArrayEnd", "EmitArrayNext"}

-----------------------------------------------------------------------------
(* The grammar of maps, checked under SpecEnc. *)

\* The tokens directly inside the container that begins at the i-th token:
\* scalars, separators and the begin tokens of the containers nested in it.
DirectItems(log, i) ==
  LET last == MatchingEnd(log, i)
      idx == { h \in (i + 1)..(last - 1) : DepthAt(log, h) = DepthAt(log, i) + 1 }
  IN  SelectSeq([h \in 1..Len(log) |-> IF h \in idx THEN log[h] ELSE [op |-> "skip", arg |-> 0]],
                LAMBDA x : x.op # "skip")

\* The begin token of the container the i-th token is directly inside of.
Enclosing(log, i) ==
  CHOOSE j \in 1..(i - 1) :
    /\ IsBegin(log[j]) /\ DepthAt(log, j) = DepthAt(log, i) - 1
    /\ \A h \in (j + 1)..(i - 1) : ~(IsBegin(log[h]) /\ DepthAt(log, h) = DepthAt(log, i) - 1)

\* key, separator, value, map-next, key, separator, value, ...
PairPattern(items) ==
  /\ Len(items) = 0 \/ Len(items) % 4 = 3
  /\ \A j \in 1..Len(items) :
       CASE j % 4 = 2 -> items[j].op = "EmitMapValue"
         [] j % 4 = 0 -> items[j].op = "EmitMapNext"
         [] OTHER -> items[j].op \notin {"EmitMapValue", "EmitMapNext"}

\* C21: in every map encoding that completes without error (the reflective
\* path, the unsorted fast paths, a record, and EncodeMap with a callback that
\* encodes the key with the first encoder and the value with the second) the
\* Emitter sees map-begin(n), then for each pair map-next (except before the
\* first), the key, exactly one map-value separator and the value, then
\* map-end; no separator is emitted outside a map, before a key or after
\* map-end.
C21_MapGrammar ==
  (op[1] \in {"Encode", "EncodeMap"} /\ ret = NoErr /\ em.failAt = 0)
    => /\ op[1] = "EncodeMap"
            => /\ Tokens[1] = [op |-> "EmitMapBegin", arg |-> op[2]]
               /\ MatchingEnd(Tokens, 1) = Len(Tokens)
       /\ \A i \in 1..Len(Tokens) :
            /\ Tokens[i].op = "EmitMapBegin" => PairPattern(DirectItems(Tokens, i))
            /\ Tokens[i].op \in {"EmitMapValue", "EmitMapNext"}
                 => /\ DepthAt(Tokens, i) >= 1
                    /\ Tokens[Enclosing(Tokens, i)].op = "EmitMapBegin"

-----------------------------------------------------------------------------
(* Composable output, checked under SpecEnc. *)

\* A value made of scalars, nil slots, pointers, arrays, maps and records.
RECURSIVE Composed(_)
Composed(v) ==
  CASE v.k \in {"nil", "int", "string"} -> TRUE
    [] v.k = "ptr" -> v.isnil \/ Composed(v.elem)
    [] v.k = "slice" -> \A i \in 1..Len(v.elems) : Composed(v.elems[i])
    [] v.k = "map" -> \A i \in 1..Len(v.pairs) :
                        Composed(v.pairs[i][1]) /\ Composed(v.pairs[i][2])
    [] v.k = "struct" -> \A i \in 1..Len(v.fields) : Composed(v.fields[i].val)
    [] OTHER -> FALSE

\* The nil pointers and nil slots of a value that are encoded, counting the
\* value itself; a field dropped for "omitempty" is not encoded.
RECURSIVE NilsOf(_)
RECURSIVE NilsOfSeq(_)
NilsOfSeq(vs) == IF vs = <<>> THEN 0 ELSE NilsOf(Head(vs)) + NilsOfSeq(Tail(vs))

NilsOf(v) ==
  CASE v.k = "nil" -> 1
    [] v.k = "ptr" -> IF v.isnil THEN 1 ELSE NilsOf(v.elem)
    [] v.k = "slice" -> NilsOfSeq(v.elems)
    [] v.k = "map" -> NilsOfSeq([i \in 1..Len(v.pairs) |-> v.pairs[i][2]])
    [] v.k = "struct" ->
         NilsOfSeq([i \in 1..Len(v.fields) |->
                      IF omit(v.fields[i]) THEN IntV(0) ELSE v.fields[i].val])
    [] OTHER -> 0

EndOf(x) == IF x.op = "EmitArrayBegin" THEN "EmitArrayEnd" ELSE "EmitMapEnd"

\* The tokens are one complete value: every begin token has its own end
\* token of the same kind at its depth, no end token comes without a begin,
\* and nothing follows the end of the first value.
OneValue(log) ==
  /\ Len(log) >= 1
  /\ DepthAt(log, Len(log) + 1) = 0
  /\ \A i \in 2..Len(log) : DepthAt(log, i) >= 1
  /\ \A i \in 1..Len(log) :
       IsBegin(log[i]) =>
         \E j \in (i + 1)..Len(log) :
           /\ log[j].op = EndOf(log[i])
           /\ DepthAt(log, j) = DepthAt(log, i) + 1
           /\ \A h \in (i + 1)..(j - 1) :
                ~(IsEnd(log[h]) /\ DepthAt(log, h) = DepthAt(log, i) + 1)

\* C22: a successful Encode of a value nested out of arrays, maps, records,
\* pointers and dynamic slots emits exactly one complete value: each
\* array-begin and map-begin has exactly one matching end at its nesting
\* depth, and each nil pointer, nil dynamic slot or nil top-level value
\* contributes exactly one Nil token.
C22_ComposableOutput ==
  (op[1] = "Encode" /\ Composed(op[2]) /\ ret = NoErr)
    => /\ OneValue(Tokens)
       /\ NumOf(Tokens, "EmitNil") = NilsOf(op[2])

C22_Witness ==
  /\ op[1] = "Encode"
  /\ op[2] = Struct(<<Field("a", FALSE, MapOf("string", "interface", <<<<StrV("a"), Slice(<<Nil, Nil>>)>>>>)),
                      Field("b", TRUE, Nil), Field("c", FALSE, Ptr(Slice(<<NilPtr>>)))>>)
  /\ ret = NoErr
  /\ NumOf(Tokens, "EmitNil") = 3
  /\ NumOf(Tokens, "EmitArrayEnd") = 2
  /\ NumOf(Tokens, "EmitMapEnd") = 2

-----------------------------------------------------------------------------
(* The selection of the encode routine of a type.  A type t is              *)
(*   [name, adapter, kind, elem, caps]                                      *)
(* name: the built-in type it is identical to, or "user"; adapter: whether  *)
(* AdapterOf(t) finds an adapter; kind and elem: t.Kind() and, for a slice, *)
(* the kind of t.Elem(); caps: the interfaces t.Implements, out of          *)
(* "encoder" (ValueEncoder), "binary" (encoding.BinaryMarshaler), "text"    *)
(* (encoding.TextMarshaler) and "error".                                    *)

Panic == "panic"

Type(name, kind, elem, caps) ==
  [name |-> name, adapter |-> FALSE, kind |-> kind, elem |-> elem, caps |-> caps]

\* The types the first switch of makeEncodeFunc compares t with.
BuiltinTypes ==
  { Type("bool", "bool", "none", {}),
    Type("string", "string", "none", {}),
    Type("bytes", "slice", "uint8", {}),
    Type("time", "struct", "none", {"binary", "text"}),
    Type("timePtr", "ptr", "none", {"binary", "text"}),
    Type("duration", "int64", "none", {}),
    Type("emptyInterface", "interface", "none", {}),
    Type("int", "int", "none", {}),
    Type("float64", "float64", "none", {}) }

Kinds ==
  {"struct", "slice", "map", "ptr", "array", "string", "bool", "int", "int64",
   "float64", "interface", "func"}

Capabilities == {"encoder", "binary", "text", "error"}

UserTypes ==
  { Type("user", k, "none", c) : k \in Kinds, c \in SUBSET Capabilities }
    \cup { Type("user", "slice", "uint8", c) : c \in SUBSET Capabilities }

Types ==
  { [t EXCEPT !.adapter = a] : t \in BuiltinTypes \cup UserTypes, a \in BOOLEAN }

\* The "switch t" of makeEncodeFunc, lines 693-753.
exactRoutine(t) ==
  CASE t.name = "bool" -> "Encoder.encodeBool"
    [] t.name = "string" -> "Encoder.encodeString"
    [] t.name = "bytes" -> "Encoder.encodeBytes"
    [] t.name \in {"time", "timePtr"} -> "Encoder.encodeTime"
    [] t.name = "duration" -> "Encoder.encodeDuration"
    [] t.name = "emptyInterface" -> "Encoder.encodeInterface"
    [] t.name = "int" -> "Encoder.encodeInt"
    [] t.name = "float64" -> "Encoder.encodeFloat64"
    [] OTHER -> "none"

\* The switch on the interfaces t implements, lines 755-772.
capabilityRoutine(t) ==
  CASE "encoder" \in t.caps -> "Encoder.encodeEncoder"
    [] "binary" \in t.caps /\ "text" \in t.caps -> "Encoder.encodeMarshaler"
    [] "binary" \in t.caps -> "Encoder.encodeBinaryMarshaler"
    [] "text" \in t.caps -> "Encoder.encodeTextMarshaler"
    [] "error" \in t.caps -> "Encoder.encodeError"
    [] OTHER -> "none"

\* The "switch t.Kind()", lines 774-837.
kindRoutine(t) ==
  CASE t.kind = "struct" -> "Encoder.encodeStruct"
    [] t.kind = "slice" ->
         IF t.elem = "uint8" THEN "Encoder.encodeBytes" ELSE "Encoder.encodeArray"
    [] t.kind = "map" -> "Encoder.encodeMap"
    [] t.kind = "ptr" -> "Encoder.encodePointer"
    [] t.kind = "array" -> "Encoder.encodeArray"
    [] t.kind = "string" -> "Encoder.encodeString"
    [] t.kind = "bool" -> "Encoder.encodeBool"
    [] t.kind = "int" -> "Encoder.encodeInt"
    [] t.kind = "int64" -> "Encoder.encodeInt64"
    [] t.kind = "float64" -> "Encoder.encodeFloat64"
    [] OTHER -> "Encoder.encodeUnsupported"

\* makeEncodeFunc with the structural kind looked at before the interfaces.
makeEncodeFuncKindFirst(t) ==
  IF t.adapter THEN "adapter.Encode"
  ELSE IF exactRoutine(t) # "none" THEN exactRoutine(t)
  ELSE IF kindRoutine(t) # "Encoder.encodeUnsupported" THEN kindRoutine(t)
  ELSE IF capabilityRoutine(t) # "none" THEN capabilityRoutine(t)
  ELSE "Encoder.encodeUnsupported"

makeEncodeFunc(t) ==
  IF t.adapter THEN "adapter.Encode"
  ELSE IF exactRoutine(t) # "none" THEN exactRoutine(t)
  ELSE IF capabilityRoutine(t) # "none" THEN capabilityRoutine(t)
  ELSE kindRoutine(t)

encodeFuncOf(t) == makeEncodeFunc(t)

\* A value of type t: whether it is a nil pointer or nil slot, whether its
\* dynamic type has MarshalText (the type itself, or for a slot of an
\* interface type the type of the value held), what its MarshalText
\* returns, and whether the Emitter is a text emitter.
ValuesOfType(t) ==
  { val \in
      [ isnil : IF t.kind \in {"ptr", "interface"} THEN BOOLEAN ELSE {FALSE},
        dynText : IF "text" \in t.caps THEN {TRUE}
                  ELSE IF t.kind = "interface" /\ "binary" \in t.caps THEN BOOLEAN
                  ELSE {FALSE},
        marshalErr : IF t.name = "user" /\ ("text" \in t.caps
                                              \/ (t.kind = "interface" /\ "binary" \in t.caps))
                     THEN {NoErr, ErrUser} ELSE {NoErr},
        text : IF {"binary", "text"} \subseteq t.caps /\ t.name = "user"
               THEN BOOLEAN ELSE {TRUE} ] :
      /\ (t.kind = "interface" /\ val.isnil) => val.dynText = ("text" \in t.caps)
      /\ ~val.dynText => val.marshalErr = NoErr }

\* A call of the value's own code: the adapter, EncodeValue or MarshalText.
UserCall(s, name) == [s EXCEPT !.log = Append(@, [op |-> name, arg |-> 0])]

encodeTime(t, val, s) ==
  IF t.kind = "ptr" /\ val.isnil THEN Emit(s, "EmitNil", 0) ELSE Emit(s, "EmitTime", 0)

\* v.Interface() of a nil value of an interface type is a nil interface{},
\* on which the type assertions of the routines below panic.
NilInterface(t, val) == t.kind = "interface" /\ val.isnil

encodeTextMarshaler(t, val, s) ==
  IF NilInterface(t, val) THEN Return(s, Panic)
  ELSE Then(Return(UserCall(s, "MarshalText"), val.marshalErr), LAMBDA s1 :
         Emit(s1, "EmitString", "text"))

\* The type assertion to encoding.TextMarshaler panics also on a value
\* whose dynamic type does not implement it.
encodeBinaryMarshaler(t, val, s) ==
  IF NilInterface(t, val) \/ ~val.dynText THEN Return(s, Panic)
  ELSE Then(Return(UserCall(s, "MarshalText"), val.marshalErr), LAMBDA s1 :
         Emit(s1, "EmitBytes", "text"))

\* encodeEncoder on a value of type t: v.Interface().(ValueEncoder).EncodeValue(e)
encodeEncoderOf(t, val, s) ==
  IF NilInterface(t, val) THEN Return(s, Panic)
  ELSE Return(UserCall(s, "EncodeValue"), NoErr)

\* encodeError: e.Emitter.EmitError(v.Interface().(error))
encodeError(t, val, s) ==
  IF NilInterface(t, val) THEN Return(s, Panic) ELSE Emit(s, "EmitError", 0)

encodeMarshaler(t, val, s) ==
  IF val.text THEN encodeTextMarshaler(t, val, s) ELSE encodeBinaryMarshaler(t, val, s)

\* The routine r applied to a value val of type t.  A container holds one
\* integer element, a pointer or a slot that is not nil holds an integer.
CallRoutine(r, t, val, e, s) ==
  CASE r = "adapter.Encode" -> Return(UserCall(s, "adapter.Encode"), NoErr)
    [] r = "Encoder.encodeBool" -> Emit(s, "EmitBool", 0)
    [] r = "Encoder.encodeString" -> Emit(s, "EmitString", "a")
    [] r = "Encoder.encodeBytes" -> Emit(s, "EmitBytes", "a")
    [] r = "Encoder.encodeTime" -> encodeTime(t, val, s)
    [] r = "Encoder.encodeDuration" -> Emit(s, "EmitDuration", 0)
    [] r = "Encoder.encodeInterface" ->
         IF val.isnil THEN encodeInterface(e, Nil, s) ELSE encode(e, IntV(1), s)
    [] r \in {"Encoder.encodeInt", "Encoder.encodeInt64"} -> Emit(s, "EmitInt", 1)
    [] r = "Encoder.encodeFloat64" -> Emit(s, "EmitFloat", 0)
    [] r = "Encoder.encodeEncoder" -> encodeEncoderOf(t, val, s)
    [] r = "Encoder.encodeMarshaler" -> encodeMarshaler(t, val, s)
    [] r = "Encoder.encodeBinaryMarshaler" -> encodeBinaryMarshaler(t, val, s)
    [] r = "Encoder.encodeTextMarshaler" -> encodeTextMarshaler(t, val, s)
    [] r = "Encoder.encodeError" -> encodeError(t, val, s)
    [] r = "Encoder.encodeStruct" ->
         encodeStruct(e, Struct(<<Field("a", FALSE, IntV(1))>>), s)
    [] r = "Encoder.encodeArray" -> encodeArrayWith(e, Slice(<<IntV(1)>>), s)
    [] r = "Encoder.encodeMap" ->
         encodeMapWith(e, MapOf("int", "int", <<<<IntV(1), IntV(1)>>>>), s)
    [] r = "Encoder.encodePointer" ->
         encodePointerWith(e, IF val.isnil THEN NilPtr ELSE Ptr(IntV(1)), s)
    [] OTHER -> encodeUnsupported(e, Nil, s)

-----------------------------------------------------------------------------
(* SpecSelect: the routine of one type is selected, then called on a value  *)
(* of the type with an Emitter that does not fail.                          *)

InitSelect ==
  /\ enc = NewEncoder(FALSE)
  /\ se = NewStreamEncoder(FALSE, FALSE)
  /\ em = [log |-> <<>>, n |-> 0, failAt |-> 0]
  /\ op = <<"new">>
  /\ ret = NoErr
  /\ nops = 0
  /\ NoResp
  /\ NoCache

SelectRoutine ==
  \E t \in Types :
    /\ op = <<"new">>
    /\ op' = <<"encodeFuncOf", t, encodeFuncOf(t)>>
    /\ UNCHANGED <<se, em, enc, ret, nops, respVars, cacheVars>>

ApplyRoutine ==
  /\ op[1] = "encodeFuncOf"
  /\ \E val \in ValuesOfType(op[2]) :
       LET s == CallRoutine(op[3], op[2], val, enc, Thread(em)) IN
       /\ em' = Emitter(s)
       /\ ret' = s.err
       /\ op' = <<"call", op[2], op[3], val>>
       /\ cache' = lookupAll(cache, s.types)
  /\ UNCHANGED <<se, enc, nops, respVars, th, poolVars>>

NextSelect == SelectRoutine \/ ApplyRoutine

SpecSelect == InitSelect /\ [][NextSelect]_vars

-----------------------------------------------------------------------------
(* The selection order, checked under SpecSelect. *)

\* The Emitter calls of the log, without the calls of the value's own code.
EmitCalls ==
  SelectSeq(em.log, LAMBDA x : x.op \notin {"call", "MarshalText", "EncodeValue", "adapter.Encode"})

MarshalTextCalled == \E i \in 1..Len(em.log) : em.log[i].op = "MarshalText"

\* C23: the routine of a type is the first match among (1) a registered
\* adapter, (2) an exact built-in type, timestamp, pointer-to-timestamp and
\* duration included, (3) the capabilities in the order custom-encode,
\* binary and text marshal, binary marshal, text marshal, error, (4) the
\* structural kind, else unsupported.  So a record type with the text-marshal
\* capability is emitted as one string or bytes token and never as
\* map-begin, a nil pointer-to-timestamp emits Nil and its MarshalText is
\* not called, and a type with no match returns the unsupported-type error
\* with no Emitter call.
C23_SelectionOrder ==
  op[1] = "call" =>
    LET t == op[2]
        r == op[3]
        val == op[4]
        builtin == \E b \in BuiltinTypes : b.name = t.name
        capable == t.caps # {}
        structural == t.kind \notin {"interface", "func"}
    IN
    /\ t.adapter => r = "adapter.Encode"
    /\ (~t.adapter /\ builtin)
         => r \in {"Encoder.encodeBool", "Encoder.encodeString", "Encoder.encodeBytes",
                   "Encoder.encodeTime", "Encoder.encodeDuration", "Encoder.encodeInterface",
                   "Encoder.encodeInt", "Encoder.encodeFloat64"}
    /\ (~t.adapter /\ t.name \in {"time", "timePtr"}) => r = "Encoder.encodeTime"
    /\ (~t.adapter /\ t.name = "duration") => r = "Encoder.encodeDuration"
    /\ (~t.adapter /\ ~builtin /\ capable)
         => r = (IF "encoder" \in t.caps THEN "Encoder.encodeEncoder"
                 ELSE IF {"binary", "text"} \subseteq t.caps THEN "Encoder.encodeMarshaler"
                 ELSE IF "binary" \in t.caps THEN "Encoder.encodeBinaryMarshaler"
                 ELSE IF "text" \in t.caps THEN "Encoder.encodeTextMarshaler"
                 ELSE "Encoder.encodeError")
    /\ (~t.adapter /\ ~builtin /\ ~capable /\ structural)
         => r \in {"Encoder.encodeStruct", "Encoder.encodeArray", "Encoder.encodeMap",
                   "Encoder.encodePointer", "Encoder.encodeBytes", "Encoder.encodeString",
                   "Encoder.encodeBool", "Encoder.encodeInt", "Encoder.encodeInt64",
                   "Encoder.encodeFloat64"}
    /\ (~t.adapter /\ ~builtin /\ ~capable /\ ~structural)
         <=> r = "Encoder.encodeUnsupported"
    /\ (~t.adapter /\ ~builtin /\ t.kind = "struct" /\ "text" \in t.caps
          /\ "encoder" \notin t.caps /\ ret = NoErr)
         => /\ Len(EmitCalls) = 1
            /\ EmitCalls[1].op \in {"EmitString", "EmitBytes"}
            /\ MarshalTextCalled
    /\ (~t.adapter /\ t.name = "timePtr" /\ val.isnil)
         => /\ EmitCalls = <<[op |-> "EmitNil", arg |-> 0]>>
            /\ ~MarshalTextCalled
            /\ ret = NoErr
    /\ r = "Encoder.encodeUnsupported" => (ret = ErrUnsupported /\ em.log = <<>>)

C23_Witness ==
  /\ op[1] = "call"
  /\ op[2] = Type("user", "struct", "none", {"text", "error"})
  /\ op[3] = "Encoder.encodeTextMarshaler"
  /\ ret = NoErr
  /\ EmitCalls = <<[op |-> "EmitString", arg |-> "text"]>>

-----------------------------------------------------------------------------
(* The one-shot Unmarshal and its pool of unmarshalers.  sync.Pool is the   *)
(* standard library's: Get removes and returns one of the pooled items, or  *)
(* calls New; Put adds an item.  An unmarshaler is known by its index in    *)
(* pool.bufs, which holds the content of its buffer u.b; pool.free are the  *)
(* pooled ones.  Goroutine i is at um[i].pc in Unmarshal with input b.      *)

MaxCalls == 2

MaxUnmarshalers == 3

\* The input of the k-th call of goroutine i.
InputOf(i, k) == <<i, k>>

\* newUnmarshaler: an unmarshaler with an empty buffer.
newUnmarshaler(p) == [p EXCEPT !.bufs = Append(@, <<>>)]

\* unmarshalerPool.Get(): the unmarshalers it may return, 0 for a new one.
poolGet(p) ==
  p.free \cup (IF Len(p.bufs) < MaxUnmarshalers THEN {0} ELSE {})

\* unmarshalerPool.Put(u)
poolPut(p, u) == [p EXCEPT !.free = @ \cup {u}]

\* u.reset(b)
reset(p, u, b) == [p EXCEPT !.bufs[u] = b]

\* Unmarshal after Decode returned err, skipping reset and Put on an error.
afterDecodeReturnsOnError(err) == IF err # NoErr THEN "put" ELSE "decoded"

\* Unmarshal after Decode returned err: reset(nil) comes next on every path.
afterDecode(err) == "decoded"

InitPool ==
  /\ pool = [bufs |-> <<>>, free |-> {}]
  /\ um = [i \in Threads |->
             [pc |-> "idle", b |-> <<>>, u |-> 0, seen |-> <<>>, err |-> NoErr, calls |-> 0]]
  /\ cache = [store |-> {}, heap |-> <<>>]
  /\ th = <<>>
  /\ se = NewStreamEncoder(FALSE, FALSE)
  /\ em = [log |-> <<>>, n |-> 0, failAt |-> 0]
  /\ enc = NewEncoder(FALSE)
  /\ pr = NewParser(<<>>)
  /\ sd = NewStreamDecoder
  /\ frames = <<>>
  /\ out = <<>>
  /\ op = <<"new">>
  /\ ret = NoErr
  /\ nops = 0

PoolStep(i, p, c) ==
  /\ pool' = p
  /\ um' = [um EXCEPT ![i] = c]
  /\ UNCHANGED <<encVars, respVars, op, ret, nops, cache, th>>

\* u := unmarshalerPool.Get().(*unmarshaler)
UnmarshalGet(i) ==
  /\ um[i].pc = "idle"
  /\ um[i].calls < MaxCalls
  /\ \E x \in poolGet(pool) :
       LET c == [um[i] EXCEPT !.pc = "got", !.b = InputOf(i, um[i].calls + 1),
                              !.seen = <<>>, !.err = NoErr]
       IN  IF x = 0
           THEN PoolStep(i, newUnmarshaler(pool), [c EXCEPT !.u = Len(pool.bufs) + 1])
           ELSE PoolStep(i, [pool EXCEPT !.free = @ \ {x}], [c EXCEPT !.u = x])

\* u.reset(b)
UnmarshalReset(i) ==
  /\ um[i].pc = "got"
  /\ PoolStep(i, reset(pool, um[i].u, um[i].b), [um[i] EXCEPT !.pc = "reset"])

\* err := (objconv.Decoder{Parser: u}).Decode(v): the decoder reads the
\* buffer of u; the input is well formed or not.
UnmarshalDecode(i) ==
  /\ um[i].pc = "reset"
  /\ \E err \in {NoErr, ErrProto} :
       PoolStep(i, pool, [um[i] EXCEPT !.pc = afterDecode(err), !.err = err,
                                        !.seen = pool.bufs[um[i].u]])

\* u.reset(nil)
UnmarshalClear(i) ==
  /\ um[i].pc = "decoded"
  /\ PoolStep(i, reset(pool, um[i].u, <<>>), [um[i] EXCEPT !.pc = "cleared"])

\* unmarshalerPool.Put(u)
UnmarshalPut(i) ==
  /\ um[i].pc = "cleared"
  /\ PoolStep(i, poolPut(pool, um[i].u), [um[i] EXCEPT !.pc = "put"])

\* return err
UnmarshalReturn(i) ==
  /\ um[i].pc = "put"
  /\ PoolStep(i, pool, [um[i] EXCEPT !.pc = "idle", !.calls = @ + 1])

NextPool ==
  \E i \in Threads :
    \/ UnmarshalGet(i)
    \/ UnmarshalReset(i)
    \/ UnmarshalDecode(i)
    \/ UnmarshalClear(i)
    \/ UnmarshalPut(i)
    \/ UnmarshalReturn(i)

SpecPool == InitPool /\ [][NextPool]_vars

\* Goroutine i holds an unmarshaler: it is between Get and Put.
Holds(i) == um[i].pc \in {"got", "reset", "decoded", "cleared"}

\* C24: in any interleaving of concurrent Unmarshal calls no unmarshaler is
\* held by two calls at a time, each call has reset the unmarshaler onto its
\* own input before it decodes, and each call has reset it to empty and
\* returned it to the pool when it returns, also when Decode returned an
\* error.
C24_PooledUnmarshaler ==
  /\ \A i, j \in Threads : (i # j /\ Holds(i) /\ Holds(j)) => um[i].u # um[j].u
  /\ \A i \in Threads : Holds(i) => um[i].u \notin pool.free
  /\ \A i \in Threads : um[i].pc = "reset" => pool.bufs[um[i].u] = um[i].b
  /\ \A i \in Threads :
       um[i].pc \in {"decoded", "cleared", "put"} => um[i].seen = um[i].b
  /\ \A x \in pool.free : pool.bufs[x] = <<>>
  /\ \A x \in 1..Len(pool.bufs) :
       x \in pool.free \/ \E i \in Threads : Holds(i) /\ um[i].u = x

C24_Witness ==
  /\ um[1].pc = "idle" /\ um[1].calls = 1 /\ um[1].err = ErrProto
  /\ um[2].pc = "decoded" /\ um[2].u = um[1].u
  /\ um[2].seen = InputOf(2, 1)
  /\ Len(pool.bufs) = 1

-----------------------------------------------------------------------------
(* The stored error of the StreamEncoder, checked under Spec. *)

\* The step encoded the last declared element and that element's encoding
\* failed: the count reached the declared maximum and no Emitter call was
\* made after those of the element.
LastElementFailed ==
  /\ op'[1] = "Encode"
  /\ se.err = NoErr /\ se'.err # NoErr
  /\ se'.max >= 1 /\ se'.cnt = se'.max /\ se'.cnt = se.cnt + 1
  /\ \/ se.oneshot
     \/ Len(EmitterCalls(em'.log)) <=
          Len(EmitterCalls(em.log)) + (IF ~se.opened THEN 1 ELSE 0)
            + (IF se.cnt # 0 THEN 1 ELSE 0) + Len(ValueLog(op'[2]))

\* C25: an error returned by an Emitter call or a value encoding of the
\* StreamEncoder is stored; from then on every Open, Encode and Close
\* returns that error, makes no Emitter call and does not mark the session
\* closed.  When the failing element is the last declared one the session
\* is left open and array-end is not emitted.
C25_StickyError ==
  [][ /\ se.err # NoErr => (ret' = se.err /\ em' = em /\ se' = se)
      /\ (se.err = NoErr /\ ret' \notin {NoErr, ErrClosedPipe, ErrTooMany})
           => se'.err = ret'
      /\ (se.err = NoErr /\ se'.err # NoErr) => ret' = se'.err
      /\ LastElementFailed
           => /\ ~se'.closed
              /\ ~se.oneshot => DepthAt(EmitterCalls(em'.log), Len(EmitterCalls(em'.log)) + 1) >= 1
    ]_vars

C25_Witness ==
  /\ op = <<"Close">>
  /\ ret = ErrIO /\ se.err = ErrIO
  /\ ~se.oneshot /\ ~se.closed
  /\ se.max = 2 /\ se.cnt = 2
  /\ NumOf(EmitterCalls(em.log), "EmitArrayEnd") = 0
  /\ em.n = em.failAt

-----------------------------------------------------------------------------
(* The capacity error of the StreamEncoder, checked under Spec. *)

\* C26: when Encode returns the "too many values" error no Emitter call is
\* made and the count, the declared maximum, the opened and closed flags
\* and the stored error are unchanged; a Close that follows still emits
\* array-end and succeeds; and in every reachable state with a declared
\* maximum max >= 0 the count is at most max.
C26_CapacityErrorHasNoEffect ==
  /\ [](se.max >= 0 => se.cnt <= se.max)
  /\ [][ /\ (op'[1] = "Encode" /\ ret' = ErrTooMany)
              => /\ em' = em
                 /\ se' = se
                 /\ se.err = NoErr /\ se.opened /\ ~se.closed
         /\ (op[1] = "Encode" /\ ret = ErrTooMany /\ op'[1] = "Close")
              => /\ se'.closed
                 /\ ~se.oneshot =>
                      /\ EmitterCalls(em'.log) =
                           Append(EmitterCalls(em.log), [op |-> "EmitArrayEnd", arg |-> 0])
                      /\ ret' = (IF em'.n = em'.failAt THEN ErrIO ELSE NoErr)
                 /\ se.oneshot => (em' = em /\ ret' = NoErr)
       ]_vars

C26_Witness ==
  /\ op[1] = "Encode" /\ ret = ErrTooMany
  /\ ~se.oneshot /\ se.opened /\ ~se.closed /\ se.err = NoErr
  /\ se.max = 0 /\ se.cnt = 0
  /\ EmitterCalls(em.log) = <<[op |-> "EmitArrayBegin", arg |-> 0]>>

====
